---------------------------- MODULE Spec2Model ----------------------------
(***************************************************************************)
(* A model of the Knowledge Hub call analyzer: the semantic deduplication  *)
(* of questions (embeddings.py), the script effectiveness tracker and the  *)
(* moderation / merge operations (database.py) and the per-document        *)
(* orchestration (analyzer.py).                                            *)
(*                                                                         *)
(* The SQLite database is the record  db ; each table is a function from   *)
(* the AUTOINCREMENT row id to the row.  Every database.py function is an  *)
(* operator from a database value to the database value it commits.        *)
(*                                                                         *)
(* Numbers.  Python floats are modelled by exact rationals [n, d]:         *)
(*  - an effectiveness is the exact value of min(base + bonus, 100);       *)
(*  - a cosine similarity c is carried as its signed square c*|c|, which   *)
(*    orders exactly as c does, so no square root is needed, together with *)
(*    the direction in which the double the code computes is off the exact *)
(*    value (ulp: -1 below, 0 exact, 1 above).  That direction is an input *)
(*    wherever the square roots or the quotient are inexact.               *)
(***************************************************************************)
EXTENDS Integers, Sequences, FiniteSets, TLC

\* ------------------------------------------------------------------ bounds
MaxQuestions == 2      \* rows the questions table may ever receive
MaxScripts   == 2      \* rows the scripts table may ever receive
MaxVariants  == 2      \* rows the question_variants table may ever receive
MaxLog       == 2      \* rows the moderation_log table may ever receive
MaxObs       == 3      \* observations (success + fail) one script may collect
MaxAsked     == 3      \* cap on a question's times_asked counter
MaxCalls     == 2      \* cap on the day's total_calls counter
MaxDocScripts == 1     \* scripts one extraction may return
NumDocs      == 2      \* documents in the documents table

\* --------------------------------------------------------- optional values
\* Python's None / SQL NULL for a value that is otherwise a sequence.
None == << >>
Some(x) == << x >>
IsNone(o) == o = << >>
The(o) == o[1]

\* SQL NULL for an integer key (AUTOINCREMENT ids start at 1).
NullId == 0

\* ---------------------------------------------------------------- rationals
Rat(n, d) == [n |-> n, d |-> d]
RatLT(a, b) == a.n * b.d < b.n * a.d
RatLE(a, b) == a.n * b.d <= b.n * a.d
RatEQ(a, b) == a.n * b.d = b.n * a.d
RatMin(a, b) == IF RatLE(a, b) THEN a ELSE b

RECURSIVE Gcd(_, _)
Gcd(a, b) == IF b = 0 THEN a ELSE Gcd(b, a % b)

\* The canonical representative of n/d (d > 0, n >= 0).
RatNorm(n, d) == LET g == Gcd(n, d) IN IF g = 0 THEN Rat(0, 1) ELSE Rat(n \div g, d \div g)

RECURSIVE Pow2(_)
Pow2(k) == IF k = 0 THEN 1 ELSE 2 * Pow2(k - 1)

Abs(x) == IF x < 0 THEN 0 - x ELSE x

\* ----------------------------------------------------- embedding storage
\* struct.pack('f', x) for an integer-valued x with |x| < 2^23: the four bytes
\* of the IEEE-754 binary32 value, least significant first.
Log2Floor(x) == CHOOSE e \in 0..23 : Pow2(e) <= x /\ x < Pow2(e + 1)

PackFloat(x) ==
    IF x = 0 THEN << 0, 0, 0, 0 >>
    ELSE LET e == Log2Floor(Abs(x))
             E == 127 + e
             M == (Abs(x) - Pow2(e)) * Pow2(23 - e)
             s == IF x < 0 THEN 1 ELSE 0
         IN << M % 256, (M \div 256) % 256, (E % 2) * 128 + (M \div 65536),
               s * 128 + (E \div 2) >>

UnpackFloat(b) ==
    LET s == b[4] \div 128
        E == (b[4] % 128) * 2 + (b[3] \div 128)
        M == (b[3] % 128) * 65536 + b[2] * 256 + b[1]
        mag == IF E = 0 /\ M = 0 THEN 0 ELSE (Pow2(23) + M) \div Pow2(23 - (E - 127))
    IN IF s = 1 THEN 0 - mag ELSE mag

RECURSIVE PackAll(_)
PackAll(v) == IF v = << >> THEN << >> ELSE PackFloat(Head(v)) \o PackAll(Tail(v))

\* serialize_embedding: None stays None, a list becomes a BLOB of 4 bytes per float.
serialize_embedding(embedding) ==
    IF IsNone(embedding) THEN None ELSE Some(PackAll(The(embedding)))

\* deserialize_embedding: None stays None, a BLOB becomes len(blob) // 4 floats.
deserialize_embedding(blob) ==
    IF IsNone(blob) THEN None
    ELSE LET bytes == The(blob)
             num_floats == Len(bytes) \div 4
         IN Some([i \in 1..num_floats |->
                    UnpackFloat(SubSeq(bytes, 4 * i - 3, 4 * i))])

\* ------------------------------------------------------ vector similarity
RECURSIVE Dot(_, _)
Dot(a, b) == IF a = << >> \/ b = << >> THEN 0
             ELSE Head(a) * Head(b) + Dot(Tail(a), Tail(b))

\* A similarity: the signed square n/d of the cosine and the rounding ulp.
Sim(n, d, ulp) == [n |-> n, d |-> d, ulp |-> ulp]
SimLT(a, b) == RatLT(a, b) \/ (RatEQ(a, b) /\ a.ulp < b.ulp)
SimLE(a, b) == RatLT(a, b) \/ (RatEQ(a, b) /\ a.ulp <= b.ulp)

\* The float 0.0 / the similarity of orthogonal vectors.
SimZero == Sim(0, 1, 0)

IsSquare(x) == \E r \in 0..x : r * r = x
IsPow2(x) == \E k \in 0..30 : Pow2(k) = x

\* cosine_similarity without the length comparison: zip() pairs the components
\* up to the shorter vector.
cosine_similarityZipped(vec1, vec2, ulp) ==
    IF vec1 = << >> \/ vec2 = << >> THEN SimZero
    ELSE LET dot_product == Dot(vec1, vec2)
             sq1 == Dot(vec1, vec1)
             sq2 == Dot(vec2, vec2)
         IN IF sq1 = 0 \/ sq2 = 0 THEN SimZero
            ELSE LET r == RatNorm(dot_product * dot_product, sq1 * sq2)
                 IN Sim(IF dot_product < 0 THEN 0 - r.n ELSE r.n, r.d,
                        IF dot_product = 0 THEN 0 ELSE ulp)

\* cosine_similarity(vec1, vec2): 0.0 for an empty vector, a length mismatch
\* or a zero magnitude, else dot / (magnitude1 * magnitude2).  The double is
\* the exact value when both square roots and the quotient are exact; else it
\* is off the exact value in the direction ulp.
cosine_similarity(vec1, vec2, ulp) ==
    IF vec1 = << >> \/ vec2 = << >> \/ Len(vec1) # Len(vec2) THEN SimZero
    ELSE LET dot_product == Dot(vec1, vec2)
             sq1 == Dot(vec1, vec1)
             sq2 == Dot(vec2, vec2)
         IN IF sq1 = 0 \/ sq2 = 0 THEN SimZero
            ELSE LET r == RatNorm(dot_product * dot_product, sq1 * sq2)
                     exact == \/ dot_product = 0
                              \/ IsSquare(sq1) /\ IsSquare(sq2) /\ IsPow2(r.d)
                 IN Sim(IF dot_product < 0 THEN 0 - r.n ELSE r.n, r.d,
                        IF exact THEN 0 ELSE ulp)

\* config.SIMILARITY_THRESHOLD = 0.82, in hundredths.
SimilarityThresholdPct == 82

\* A threshold of pct/100 on the scale of cosine_similarity.
Threshold(pct) == Sim(IF pct < 0 THEN 0 - pct * pct ELSE pct * pct, 10000, 0)

\* ------------------------------------------------------------ the database
VARIABLES
    db,        \* the committed SQLite database: one field per table
    last,      \* the operation that committed last, its arguments and its result
    proc,      \* the process_document calls in flight, one per worker thread
    conn,      \* the open database connections with uncommitted statements
    probe,     \* the arguments and result of a function applied on its own
    processing_status  \* app.processing_status, shared by the request threads

vars == << db, last, proc, conn, probe, processing_status >>

\* Rows of a table in rowid order (a table scan without ORDER BY).
RECURSIVE RowIds(_)
RowIds(S) == IF S = {} THEN << >>
             ELSE LET m == CHOOSE x \in S : \A y \in S : x <= y
                  IN << m >> \o RowIds(S \ {m})

Insert(table, id, row) == table @@ (id :> row)
Delete(table, ids) == [i \in (DOMAIN table) \ ids |-> table[i]]

\* ------------------------------------------------------ embedding service
QuestionTexts == { "reset password", "password reset", "billing" }

\* The embedding model: a fixed vector per text.  The first two texts are
\* near-identical phrasings (cosine 0.97), the third is unrelated to both.
EmbeddingOf(text) ==
    CASE text = "reset password" -> << 4, 0 >>
      [] text = "password reset" -> << 4, 1 >>
      [] OTHER                   -> << 0, 3 >>

get_embeddingAnyway(text, up) == Some(EmbeddingOf(text))

\* get_embedding: None when the service fails or the text is empty.
get_embedding(text, up) ==
    IF ~up THEN None
    ELSE IF text = "" THEN None
    ELSE Some(EmbeddingOf(text))

\* ---------------------------------------------------------------- resolver
get_all_questions_with_embeddings(d) ==
    LET ids == RowIds({ q \in DOMAIN d.questions : ~IsNone(d.questions[q].embedding) })
    IN [i \in 1..Len(ids) |->
          [id             |-> ids[i],
           canonical_text |-> d.questions[ids[i]].canonical_text,
           embedding      |-> deserialize_embedding(d.questions[ids[i]].embedding)]]

\* A loop that lets a later row take the place of an equally similar one.
RECURSIVE ScanBestLast(_, _, _, _, _, _)
ScanBestLast(rows, new_embedding, i, best_match, best_similarity, round) ==
    IF i > Len(rows) THEN [best_match |-> best_match, best_similarity |-> best_similarity]
    ELSE LET e == rows[i].embedding
         IN IF IsNone(e) \/ The(e) = << >>
            THEN ScanBestLast(rows, new_embedding, i + 1, best_match, best_similarity, round)
            ELSE LET similarity == cosine_similarity(new_embedding, The(e), round[The(e)])
                 IN IF SimLE(best_similarity, similarity) /\ similarity # SimZero
                    THEN ScanBestLast(rows, new_embedding, i + 1, rows[i].id, similarity,
                                      round)
                    ELSE ScanBestLast(rows, new_embedding, i + 1, best_match,
                                      best_similarity, round)

\* The loop of find_similar_question from row i on: the first row with the
\* strictly highest similarity above 0.0 is kept.  round gives, per stored
\* vector, the direction its similarity to new_embedding is rounded in.
RECURSIVE ScanBest(_, _, _, _, _, _)
ScanBest(rows, new_embedding, i, best_match, best_similarity, round) ==
    IF i > Len(rows) THEN [best_match |-> best_match, best_similarity |-> best_similarity]
    ELSE LET e == rows[i].embedding
         IN IF IsNone(e) \/ The(e) = << >>
            THEN ScanBest(rows, new_embedding, i + 1, best_match, best_similarity, round)
            ELSE LET similarity == cosine_similarity(new_embedding, The(e), round[The(e)])
                 IN IF SimLT(best_similarity, similarity)
                    THEN ScanBest(rows, new_embedding, i + 1, rows[i].id, similarity, round)
                    ELSE ScanBest(rows, new_embedding, i + 1, best_match, best_similarity,
                                  round)

\* What find_similar_question returns: Python's None (none = TRUE) or the dict.
NoResult == [none |-> TRUE, question_id |-> NullId, similarity |-> SimZero,
             embedding |-> None]

\* The decision of find_similar_question over the fetched rows.
ResolveRows(rows, new_embedding, thresholdPct, round) ==
    IF IsNone(new_embedding) \/ The(new_embedding) = << >> THEN NoResult
    ELSE IF rows = << >> THEN NoResult
    ELSE LET r == ScanBest(rows, The(new_embedding), 1, NullId, SimZero, round)
         IN IF r.best_match # NullId /\ SimLE(Threshold(thresholdPct), r.best_similarity)
            THEN [none |-> FALSE, question_id |-> r.best_match,
                  similarity |-> r.best_similarity, embedding |-> new_embedding]
            ELSE [none |-> FALSE, question_id |-> NullId,
                  similarity |-> IF r.best_match # NullId THEN r.best_similarity ELSE SimZero,
                  embedding |-> new_embedding]

\* The stored vectors of rows, and the rounding that is exact on all of them.
StoredVectors(rows) ==
    { The(rows[i].embedding) : i \in { j \in 1..Len(rows) : ~IsNone(rows[j].embedding) } }
NoRounding(rows) == [v \in StoredVectors(rows) |-> 0]

\* find_similar_question(problem_text, threshold).  The similarities between
\* the texts of the model are far from the configured threshold, where the
\* rounding direction cannot change the decision.
find_similar_question(d, problem_text, up, thresholdPct) ==
    LET rows == get_all_questions_with_embeddings(d)
    IN ResolveRows(rows, get_embedding(problem_text, up), thresholdPct, NoRounding(rows))

\* ------------------------------------------------------ question operations
\* The id an INSERT into an AUTOINCREMENT table returns (cursor.lastrowid).
NextId(d, table) == d.seq[table] + 1

\* add_question: status 'no_answer'; the schema defaults give moderation_status
\* 'pending', times_asked 1 and no best script.
add_question(d, cluster_id, canonical_text, embedding, subcategory_id) ==
    LET id == NextId(d, "questions")
    IN [d EXCEPT
          !.questions = Insert(@, id,
              [cluster_id        |-> cluster_id,
               subcategory_id    |-> subcategory_id,
               canonical_text    |-> canonical_text,
               embedding         |-> serialize_embedding(embedding),
               status            |-> "no_answer",
               moderation_status |-> "pending",
               best_script_id    |-> NullId,
               times_asked       |-> 1]),
          !.seq.questions = id]

update_question_embedding(d, question_id, embedding) ==
    IF question_id \in DOMAIN d.questions
    THEN [d EXCEPT !.questions[question_id].embedding = serialize_embedding(embedding)]
    ELSE d

increment_question_askedTwice(d, question_id) ==
    IF question_id \in DOMAIN d.questions
    THEN [d EXCEPT !.questions[question_id].times_asked = @ + 2]
    ELSE d

increment_question_asked(d, question_id) ==
    IF question_id \in DOMAIN d.questions
    THEN [d EXCEPT !.questions[question_id].times_asked = @ + 1]
    ELSE d

\* A variant that is not stored.
add_question_variantLost(d, question_id, variant_text, source_document_id) == d

add_question_variant(d, question_id, variant_text, source_document_id) ==
    LET id == NextId(d, "question_variants")
    IN [d EXCEPT
          !.question_variants = Insert(@, id,
              [question_id        |-> question_id,
               variant_text       |-> variant_text,
               source_document_id |-> source_document_id]),
          !.seq.question_variants = id]

\* ------------------------------------------------------- moderation log
\* A log that is never written.
add_moderation_logDropped(d, question_id, script_id, action, reason, old_value, new_value) == d

\* add_moderation_log: one more row; None is logged as the string "NULL".
add_moderation_log(d, question_id, script_id, action, reason, old_value, new_value) ==
    [d EXCEPT !.moderation_log = Append(@,
        [question_id |-> question_id, script_id |-> script_id, action |-> action,
         reason |-> reason, old_value |-> old_value, new_value |-> new_value,
         admin_user |-> "admin"])]

\* --------------------------------------------------------- script tracker
ScriptsOf(d, question_id) ==
    { s \in DOMAIN d.scripts : d.scripts[s].question_id = question_id }

\* ORDER BY effectiveness DESC, success_count DESC: a sorts at or before b.
RanksAtLeast(a, b) ==
    \/ RatLT(b.effectiveness, a.effectiveness)
    \/ /\ RatEQ(a.effectiveness, b.effectiveness)
       /\ a.success_count >= b.success_count

\* The rows that may come first under that ORDER BY.
TopScripts(d, question_id) ==
    { s \in ScriptsOf(d, question_id) :
        \A t \in ScriptsOf(d, question_id) : RanksAtLeast(d.scripts[s], d.scripts[t]) }

\* A selection that ignores the ORDER BY: the question's first script by id.
SelectBestFirst(d, question_id, pick) ==
    IF ScriptsOf(d, question_id) = {} THEN NullId
    ELSE CHOOSE s \in ScriptsOf(d, question_id) : \A t \in ScriptsOf(d, question_id) : s <= t

\* LIMIT 1 of that ORDER BY.  Rows that tie on both keys come in an order SQL
\* leaves open: pick names the row SQLite returns when it is one of them.
SelectBest(d, question_id, pick) ==
    LET top == TopScripts(d, question_id)
    IN IF top = {} THEN NullId
       ELSE IF pick \in top THEN pick
       ELSE CHOOSE s \in top : \A t \in top : s <= t

\* The question status derived from the best script's effectiveness.
StatusFor(effectiveness) ==
    IF RatLE(Rat(70, 1), effectiveness) THEN "resolved"
    ELSE IF RatLT(Rat(0, 1), effectiveness) THEN "needs_work"
    ELSE "no_answer"

\* _update_best_script: clear is_best on the question's scripts, flag the top
\* one and set the question's status and best_script_id.
update_best_script(d, question_id, pick) ==
    LET best == SelectBest(d, question_id, pick)
        cleared == [s \in DOMAIN d.scripts |->
                      IF d.scripts[s].question_id = question_id
                      THEN [d.scripts[s] EXCEPT !.is_best = (s = best)]
                      ELSE d.scripts[s]]
        status == IF best = NullId THEN "no_answer"
                  ELSE StatusFor(d.scripts[best].effectiveness)
    IN [d EXCEPT
          !.scripts = cleared,
          !.questions = [q \in DOMAIN d.questions |->
                           IF q = question_id
                           THEN [d.questions[q] EXCEPT !.status = status,
                                                       !.best_script_id = best]
                           ELSE d.questions[q]]]

\* The formula without its cap at 100.
EffectivenessUncapped(success_count, fail_count, has_steps, script_type) ==
    LET total == success_count + fail_count
        base == IF total > 0 THEN Rat(success_count * 100, total) ELSE Rat(50, 1)
        bonus == (IF has_steps THEN 10 ELSE 0)
                 + (IF script_type = "instruction" THEN 5 ELSE 0)
    IN RatNorm(base.n + bonus * base.d, base.d)

\* The effectiveness formula of _update_script_effectiveness.
Effectiveness(success_count, fail_count, has_steps, script_type) ==
    LET total == success_count + fail_count
        base == IF total > 0 THEN Rat(success_count * 100, total) ELSE Rat(50, 1)
        bonus == (IF has_steps THEN 10 ELSE 0)
                 + (IF script_type = "instruction" THEN 5 ELSE 0)
        sum == Rat(base.n + bonus * base.d, base.d)
        capped == RatMin(sum, Rat(100, 1))
    IN RatNorm(capped.n, capped.d)

update_script_effectiveness(d, script_id) ==
    IF script_id \in DOMAIN d.scripts
    THEN LET row == d.scripts[script_id]
         IN [d EXCEPT !.scripts[script_id].effectiveness =
                Effectiveness(row.success_count, row.fail_count,
                              row.has_steps, row.script_type)]
    ELSE d

\* The effectiveness add_script stores on a new script.
InitialEffectiveness(has_steps, script_type, resolved) ==
    LET start == IF resolved THEN 70 ELSE 30
        bonus == (IF has_steps THEN 10 ELSE 0)
                 + (IF script_type = "instruction" THEN 5 ELSE 0)
    IN RatMin(Rat(start + bonus, 1), Rat(100, 1))

add_script(d, question_id, script_text, script_type, has_steps, resolved, source_doc_id, pick) ==
    LET id == NextId(d, "scripts")
        inserted == [d EXCEPT
            !.scripts = Insert(@, id,
                [question_id        |-> question_id,
                 script_text        |-> script_text,
                 script_type        |-> script_type,
                 has_steps          |-> has_steps,
                 success_count      |-> IF resolved THEN 1 ELSE 0,
                 fail_count         |-> IF resolved THEN 0 ELSE 1,
                 effectiveness      |-> InitialEffectiveness(has_steps, script_type, resolved),
                 is_best            |-> FALSE,
                 source_document_id |-> source_doc_id]),
            !.seq.scripts = id]
    IN update_best_script(inserted, question_id, pick)

\* A counter UPDATE that counts every observation as a success.
IncrementCountAlways(d, script_id, success) ==
    IF script_id \in DOMAIN d.scripts
    THEN [d EXCEPT !.scripts[script_id].success_count = @ + 1]
    ELSE d

\* The counter UPDATE of update_script_count / update_script_feedback.
IncrementCount(d, script_id, success) ==
    IF script_id \in DOMAIN d.scripts
    THEN IF success
         THEN [d EXCEPT !.scripts[script_id].success_count = @ + 1]
         ELSE [d EXCEPT !.scripts[script_id].fail_count = @ + 1]
    ELSE d

update_script_count(d, script_id, success, pick) ==
    LET counted == update_script_effectiveness(IncrementCount(d, script_id, success),
                                               script_id)
    IN IF script_id \in DOMAIN d.scripts
       THEN update_best_script(counted, d.scripts[script_id].question_id, pick)
       ELSE counted

\* A feedback that counts and rescores without ranking the question's scripts.
update_script_feedbackUnranked(d, script_id, helpful, pick) ==
    update_script_effectiveness(IncrementCount(d, script_id, helpful), script_id)

update_script_feedback(d, script_id, helpful, pick) ==
    LET counted == update_script_effectiveness(IncrementCount(d, script_id, helpful),
                                               script_id)
    IN IF script_id \in DOMAIN d.scripts
       THEN update_best_script(counted, d.scripts[script_id].question_id, pick)
       ELSE counted

recalculate_best_script(d, question_id, pick) == update_best_script(d, question_id, pick)

\* ------------------------------------------------------------ script texts
\* A script text is its words (joined by single spaces) and whether it is
\* written with capitals.  No word of the vocabulary occurs inside another, so
\* one text is a substring of another exactly when its words are a run of the
\* other's words.
WordLen(w) ==
    CASE w = "ok" -> 2
      [] w = "restart" -> 7
      [] w = "router" -> 6
      [] w = "please" -> 6
      [] w = "hold" -> 4
      [] w = "power" -> 5
      [] w = "button" -> 6
      [] w = "for" -> 3
      [] w = "ten" -> 3
      [] w = "seconds" -> 7
      [] w = "until" -> 5
      [] w = "screen" -> 6
      [] w = "turns" -> 5
      [] w = "black" -> 5
      [] OTHER -> 4

Text(words, caps) == [words |-> words, caps |-> caps]

RECURSIVE SumLen(_)
SumLen(words) == IF words = << >> THEN 0 ELSE WordLen(Head(words)) + SumLen(Tail(words))

\* len(text) of a stripped text.
TextLen(t) == IF t.words = << >> THEN 0 ELSE SumLen(t.words) + Len(t.words) - 1

\* text.lower().strip()
Normalize(t) == [t EXCEPT !.caps = FALSE]

\* set(text.split())
WordSet(t) == { t.words[i] : i \in 1..Len(t.words) }

\* shorter in longer
IsSubstring(shorter, longer) ==
    \E i \in 0..(Len(longer.words) - Len(shorter.words)) :
        SubSeq(longer.words, i + 1, i + Len(shorter.words)) = shorter.words

\* The length both texts must exceed before containment or overlap is tried.
MinSimilarLen == 50

\* similarity_threshold = 0.9 of find_similar_script, in tenths.
OverlapTenths == 9

\* The test find_similar_script applies to one stored script.
SimilarScriptText(normalized_new, normalized_existing) ==
    \/ normalized_new = normalized_existing
    \/ /\ TextLen(normalized_new) > MinSimilarLen
       /\ TextLen(normalized_existing) > MinSimilarLen
       /\ LET shorter == IF TextLen(normalized_existing) < TextLen(normalized_new)
                         THEN normalized_existing ELSE normalized_new
              longer == IF TextLen(normalized_existing) > TextLen(normalized_new)
                        THEN normalized_existing ELSE normalized_new
              words_new == WordSet(normalized_new)
              words_existing == WordSet(normalized_existing)
          IN \/ IsSubstring(shorter, longer)
             \/ /\ Cardinality(words_new) > 0
                /\ Cardinality(words_new \cap words_existing) * 10
                       > OverlapTenths * Cardinality(words_new)

RECURSIVE FirstSimilar(_, _, _, _)
FirstSimilar(d, rows, i, normalized_new) ==
    IF i > Len(rows) THEN NullId
    ELSE IF SimilarScriptText(normalized_new, Normalize(d.scripts[rows[i]].script_text))
    THEN rows[i]
    ELSE FirstSimilar(d, rows, i + 1, normalized_new)

\* find_similar_script: the first script of the question the text matches, or None.
find_similar_script(d, question_id, script_text) ==
    FirstSimilar(d, RowIds(ScriptsOf(d, question_id)), 1, Normalize(script_text))

\* ------------------------------------------------- moderation operations
\* Each operation gives the database it commits; the value it returns is the
\* operator of the same name with the suffix Ok.

set_question_moderation_status(d, question_id, moderation_status, reason) ==
    LET old_status == IF question_id \in DOMAIN d.questions
                      THEN d.questions[question_id].moderation_status ELSE "pending"
        updated == IF question_id \in DOMAIN d.questions
                   THEN [d EXCEPT !.questions[question_id].moderation_status = moderation_status]
                   ELSE d
    IN add_moderation_log(updated, question_id, NullId,
                          "status_changed_to_" \o moderation_status, reason,
                          old_status, moderation_status)

set_question_moderation_statusOk(d, question_id) == question_id \in DOMAIN d.questions

\* One pass of the loop of bulk_set_moderation_status.
BulkSetOne(d, qid, moderation_status, reason) ==
    LET old_status == IF qid \in DOMAIN d.questions
                      THEN d.questions[qid].moderation_status ELSE "pending"
        updated == IF qid \in DOMAIN d.questions
                   THEN [d EXCEPT !.questions[qid].moderation_status = moderation_status]
                   ELSE d
    IN add_moderation_log(updated, qid, NullId,
                          "bulk_status_changed_to_" \o moderation_status, reason,
                          old_status, moderation_status)

RECURSIVE bulk_set_moderation_status(_, _, _, _)
bulk_set_moderation_status(d, question_ids, moderation_status, reason) ==
    IF question_ids = << >> THEN d
    ELSE bulk_set_moderation_status(
             BulkSetOne(d, Head(question_ids), moderation_status, reason),
             Tail(question_ids), moderation_status, reason)

\* What bulk_set_moderation_status returns.
bulk_set_moderation_statusCount(d, question_ids) == Len(question_ids)

\* One pass of the loop of bulk_delete_questions: the log entry is written
\* only when the DELETE removed a row.
BulkDeleteOne(d, qid, reason) ==
    LET deleted == [d EXCEPT
            !.question_variants = Delete(@, { v \in DOMAIN @ : @[v].question_id = qid }),
            !.scripts = Delete(@, { s \in DOMAIN @ : @[s].question_id = qid }),
            !.questions = Delete(@, { qid })]
    IN IF qid \in DOMAIN d.questions
       THEN add_moderation_log(deleted, qid, NullId, "bulk_deleted", reason,
                               d.questions[qid].canonical_text, "NULL")
       ELSE deleted

RECURSIVE bulk_delete_questions(_, _, _)
bulk_delete_questions(d, question_ids, reason) ==
    IF question_ids = << >> THEN d
    ELSE bulk_delete_questions(BulkDeleteOne(d, Head(question_ids), reason),
                               Tail(question_ids), reason)

\* What bulk_delete_questions returns: the passes whose DELETE removed a row.
RECURSIVE bulk_delete_questionsCount(_, _)
bulk_delete_questionsCount(d, question_ids) ==
    IF question_ids = << >> THEN 0
    ELSE (IF Head(question_ids) \in DOMAIN d.questions THEN 1 ELSE 0)
         + bulk_delete_questionsCount(BulkDeleteOne(d, Head(question_ids), ""),
                                      Tail(question_ids))

update_question_text(d, question_id, new_text) ==
    LET old_text == IF question_id \in DOMAIN d.questions
                    THEN d.questions[question_id].canonical_text ELSE ""
        updated == IF question_id \in DOMAIN d.questions
                   THEN [d EXCEPT !.questions[question_id].canonical_text = new_text]
                   ELSE d
    IN add_moderation_log(updated, question_id, NullId, "text_edited", "NULL",
                          old_text, new_text)

\* A deletion that takes the question's log entries with it.
delete_questionPurging(d, question_id, reason) ==
    LET question_text == IF question_id \in DOMAIN d.questions
                         THEN d.questions[question_id].canonical_text ELSE ""
        deleted == [d EXCEPT
            !.question_variants = Delete(@, { v \in DOMAIN @ : @[v].question_id = question_id }),
            !.scripts = Delete(@, { s \in DOMAIN @ : @[s].question_id = question_id }),
            !.questions = Delete(@, { question_id }),
            !.moderation_log = SelectSeq(@, LAMBDA e : e.question_id # question_id)]
    IN add_moderation_log(deleted, question_id, NullId, "deleted", reason,
                          question_text, "NULL")

delete_question(d, question_id, reason) ==
    LET question_text == IF question_id \in DOMAIN d.questions
                         THEN d.questions[question_id].canonical_text ELSE ""
        deleted == [d EXCEPT
            !.question_variants = Delete(@, { v \in DOMAIN @ : @[v].question_id = question_id }),
            !.scripts = Delete(@, { s \in DOMAIN @ : @[s].question_id = question_id }),
            !.questions = Delete(@, { question_id })]
    IN add_moderation_log(deleted, question_id, NullId, "deleted", reason,
                          question_text, "NULL")

delete_questionOk(d, question_id) == question_id \in DOMAIN d.questions

delete_script(d, script_id, pick) ==
    IF script_id \notin DOMAIN d.scripts THEN d
    ELSE LET question_id == d.scripts[script_id].question_id
             deleted == [d EXCEPT !.scripts = Delete(@, { script_id })]
         IN add_moderation_log(update_best_script(deleted, question_id, pick),
                               question_id, script_id, "script_deleted", "NULL",
                               ToString(d.scripts[script_id].script_text), "NULL")

delete_scriptOk(d, script_id) == script_id \in DOMAIN d.scripts

\* set_best_script: the flag moves only if the script is the question's; the
\* question's best_script_id is set to script_id in any case.
set_best_script(d, question_id, script_id) ==
    LET flagged == [d EXCEPT
            !.scripts = [s \in DOMAIN @ |->
                IF @[s].question_id = question_id
                THEN [@[s] EXCEPT !.is_best = (s = script_id)]
                ELSE @[s]],
            !.questions = [q \in DOMAIN @ |->
                IF q = question_id
                THEN [@[q] EXCEPT !.best_script_id = script_id]
                ELSE @[q]]]
    IN add_moderation_log(flagged, question_id, script_id, "best_script_set", "NULL",
                          "NULL", ToString(script_id))

set_best_scriptOk(d, question_id) == question_id \in DOMAIN d.questions

\* A validation that looks up the source only.
merge_questionsSourceOk(d, source_id, target_id) == source_id \in DOMAIN d.questions

\* merge_questions: fails, changing nothing, unless both questions exist.
merge_questionsOk(d, source_id, target_id) ==
    source_id \in DOMAIN d.questions /\ target_id \in DOMAIN d.questions

merge_questions(d, source_id, target_id, pick) ==
    IF ~merge_questionsOk(d, source_id, target_id) THEN d
    ELSE LET source_text == d.questions[source_id].canonical_text
             source_times == IF d.questions[source_id].times_asked = 0 THEN 1
                             ELSE d.questions[source_id].times_asked
             variant_id == NextId(d, "question_variants")
             moved == [d EXCEPT
                 !.question_variants = Insert(
                     [v \in DOMAIN @ |->
                         IF @[v].question_id = source_id
                         THEN [@[v] EXCEPT !.question_id = target_id] ELSE @[v]],
                     variant_id,
                     [question_id |-> target_id, variant_text |-> source_text,
                      source_document_id |-> NullId]),
                 !.seq.question_variants = variant_id,
                 !.scripts = [s \in DOMAIN @ |->
                     IF @[s].question_id = source_id
                     THEN [@[s] EXCEPT !.question_id = target_id] ELSE @[s]],
                 !.questions[target_id].times_asked = @ + source_times,
                 !.merged_questions = Append(@,
                     [source_question_id |-> source_id,
                      target_question_id |-> target_id,
                      source_canonical_text |-> source_text])]
             removed == [moved EXCEPT !.questions = Delete(@, { source_id })]
         IN add_moderation_log(update_best_script(removed, target_id, pick),
                               target_id, NullId, "merged",
                               "Merged question #" \o ToString(source_id)
                                   \o " into this question",
                               source_text, "NULL")

\* ------------------------------------------------------------- documents
update_document_statusOnly(d, doc_id, status, error_message, analysis_result) ==
    IF doc_id \in DOMAIN d.documents
    THEN [d EXCEPT !.documents[doc_id].status = status]
    ELSE d

update_document_status(d, doc_id, status, error_message, analysis_result) ==
    IF doc_id \in DOMAIN d.documents
    THEN [d EXCEPT !.documents[doc_id] =
            [@ EXCEPT !.status = status, !.error_message = error_message,
                      !.analysis_result = analysis_result]]
    ELSE d

update_daily_summaryAsNew(d, calls, questions, scripts, resolved, unresolved) ==
    LET old == IF "today" \in DOMAIN d.daily_summary THEN d.daily_summary["today"]
               ELSE [total_calls |-> 0, new_questions |-> 0, new_scripts |-> 0,
                     resolved_count |-> 0, unresolved_count |-> 0]
    IN [d EXCEPT !.daily_summary = [x \in {"today"} |->
          [total_calls      |-> old.total_calls + calls,
           new_questions    |-> old.new_questions + calls,
           new_scripts      |-> old.new_scripts + scripts,
           resolved_count   |-> old.resolved_count + resolved,
           unresolved_count |-> old.unresolved_count + unresolved]]]

\* A summary that counts a transcript as resolved and as unresolved.
update_daily_summaryBoth(d, calls, questions, scripts, resolved, unresolved) ==
    LET old == IF "today" \in DOMAIN d.daily_summary THEN d.daily_summary["today"]
               ELSE [total_calls |-> 0, new_questions |-> 0, new_scripts |-> 0,
                     resolved_count |-> 0, unresolved_count |-> 0]
    IN [d EXCEPT !.daily_summary = [x \in {"today"} |->
          [total_calls      |-> old.total_calls + calls,
           new_questions    |-> old.new_questions + questions,
           new_scripts      |-> old.new_scripts + scripts,
           resolved_count   |-> old.resolved_count + resolved + unresolved,
           unresolved_count |-> old.unresolved_count + resolved + unresolved]]]

\* update_daily_summary: add to today's row, creating it when missing.
update_daily_summary(d, calls, questions, scripts, resolved, unresolved) ==
    LET old == IF "today" \in DOMAIN d.daily_summary THEN d.daily_summary["today"]
               ELSE [total_calls |-> 0, new_questions |-> 0, new_scripts |-> 0,
                     resolved_count |-> 0, unresolved_count |-> 0]
    IN [d EXCEPT !.daily_summary = [x \in {"today"} |->
          [total_calls      |-> old.total_calls + calls,
           new_questions    |-> old.new_questions + questions,
           new_scripts      |-> old.new_scripts + scripts,
           resolved_count   |-> old.resolved_count + resolved,
           unresolved_count |-> old.unresolved_count + unresolved]]]

\* ------------------------------------------------ clusters, subcategories
\* config.CLUSTERS, and the ids init_db gives the clusters the model uses.
CLUSTERS == { "Messaging", "Calls & Voice", "Data & Internet", "Device Issues",
              "Apps & Software", "Account & Billing", "Store & Service",
              "General Inquiry" }

ClusterIdOf(name) == IF name = "Messaging" THEN 2 ELSE 8

SubcategoryByName(d, cluster_id, name) ==
    { i \in DOMAIN d.subcategories :
        d.subcategories[i].cluster_id = cluster_id /\ d.subcategories[i].name = name }

\* The id get_or_create_subcategory returns.
SubcategoryIdOf(d, cluster_id, name) ==
    IF SubcategoryByName(d, cluster_id, name) # {}
    THEN CHOOSE i \in SubcategoryByName(d, cluster_id, name) : TRUE
    ELSE NextId(d, "subcategories")

get_or_create_subcategory(d, cluster_id, name) ==
    IF SubcategoryByName(d, cluster_id, name) # {} THEN d
    ELSE LET id == NextId(d, "subcategories")
         IN [d EXCEPT !.subcategories = Insert(@, id,
                          [cluster_id |-> cluster_id, name |-> name]),
                      !.seq.subcategories = id]

\* ------------------------------------------------------- process_document
\* The dedup step: attach the text to the matched question as a variant, or
\* create a new canonical question with the embedding the resolver returned.
MatchedQuestion(match_result) == ~match_result.none /\ match_result.question_id # NullId

StoreQuestion(d, match_result, doc_id, question_text, cluster_id, subcategory_id) ==
    IF MatchedQuestion(match_result)
    THEN increment_question_asked(
             add_question_variant(d, match_result.question_id, question_text, doc_id),
             match_result.question_id)
    ELSE add_question(d, cluster_id, question_text,
                      IF match_result.none THEN None ELSE match_result.embedding,
                      subcategory_id)

\* The question the document's scripts are then filed under.
StoredQuestionId(d, match_result) ==
    IF MatchedQuestion(match_result) THEN match_result.question_id
    ELSE NextId(d, "questions")

\* The shortest script text that is not skipped.
MinScriptLen == 10

\* resolved = script_data.get('resolved_issue', customer_satisfied)
ResolvedOf(script_data, customer_satisfied) ==
    IF script_data.resolved_issue = "absent" THEN customer_satisfied
    ELSE script_data.resolved_issue = "yes"

\* One pass of the script loop of process_document.
StoreScript(d, question_id, script_data, customer_satisfied, doc_id, pick) ==
    IF TextLen(script_data.text) < MinScriptLen THEN d
    ELSE LET resolved == ResolvedOf(script_data, customer_satisfied)
             existing_script == find_similar_script(d, question_id, script_data.text)
         IN IF existing_script # NullId
            THEN update_script_count(d, existing_script, resolved, pick)
            ELSE add_script(d, question_id, script_data.text, script_data.type,
                            script_data.has_steps, resolved, doc_id, pick)

\* Whether that pass adds a script (scripts_added += 1).
AddsScript(d, question_id, script_data) ==
    /\ TextLen(script_data.text) >= MinScriptLen
    /\ find_similar_script(d, question_id, script_data.text) = NullId

RECURSIVE StoreScripts(_, _, _, _, _, _, _)
StoreScripts(d, question_id, scripts, i, customer_satisfied, doc_id, pick) ==
    IF i > Len(scripts) THEN [db |-> d, scripts_added |-> 0]
    ELSE LET rest == StoreScripts(
                 StoreScript(d, question_id, scripts[i], customer_satisfied, doc_id, pick),
                 question_id, scripts, i + 1, customer_satisfied, doc_id, pick)
         IN [db |-> rest.db,
             scripts_added |-> rest.scripts_added
                 + (IF AddsScript(d, question_id, scripts[i]) THEN 1 ELSE 0)]

\* Stage 2 and the bookkeeping that ends process_document.
\* extraction is None (the call failed) or Some([scripts, customer_satisfied]).
FinishDocument(d, doc_id, question_id, question_text, new_question, extraction, pick) ==
    LET has_scripts == ~IsNone(extraction) /\ The(extraction).scripts # << >>
        stored == IF has_scripts
                  THEN StoreScripts(d, question_id, The(extraction).scripts, 1,
                                    The(extraction).customer_satisfied, doc_id, pick)
                  ELSE [db |-> d, scripts_added |-> 0]
        ranked == IF has_scripts
                  THEN recalculate_best_script(stored.db, question_id, pick)
                  ELSE stored.db
        resolved_count == IF ~IsNone(extraction) /\ The(extraction).customer_satisfied
                          THEN 1 ELSE 0
    IN update_daily_summary(
           update_document_status(ranked, doc_id, "processed", "NULL", question_text),
           1, IF new_question THEN 1 ELSE 0, stored.scripts_added,
           resolved_count, 1 - resolved_count)

AlreadyProcessedNever(d, doc_id) == FALSE

\* The status test that makes process_document skip a document.
AlreadyProcessed(d, doc_id) == d.documents[doc_id].status = "processed"

\* process_document run alone, from the first statement to the last.
\* classification is None (the call failed) or Some([cluster, subcategory,
\* question]); up says whether the embedding service answers.
process_document(d, doc_id, classification, up, extraction, pick) ==
    IF doc_id \notin DOMAIN d.documents THEN d
    ELSE IF AlreadyProcessed(d, doc_id) THEN d
    ELSE IF d.documents[doc_id].content = ""
    THEN update_document_status(d, doc_id, "error", "No content", "NULL")
    ELSE IF IsNone(classification)
    THEN update_document_status(d, doc_id, "error", "Classification failed", "NULL")
    ELSE IF The(classification).question = ""
    THEN update_daily_summary(
             update_document_status(d, doc_id, "processed", "NULL", ""),
             1, 0, 0, 0, 0)
    ELSE LET c == The(classification)
             cluster_name == IF c.cluster \in CLUSTERS THEN c.cluster ELSE "General Inquiry"
             cluster_id == ClusterIdOf(cluster_name)
             subcategory_id == SubcategoryIdOf(d, cluster_id, c.subcategory)
             d1 == get_or_create_subcategory(d, cluster_id, c.subcategory)
             match_result == find_similar_question(d1, c.question, up, SimilarityThresholdPct)
             d2 == StoreQuestion(d1, match_result, doc_id, c.question, cluster_id,
                                 subcategory_id)
         IN FinishDocument(d2, doc_id, StoredQuestionId(d1, match_result), c.question,
                           ~MatchedQuestion(match_result), extraction, pick)

\* What process_document returns.
process_documentOk(d, doc_id, classification) ==
    /\ doc_id \in DOMAIN d.documents
    /\ \/ AlreadyProcessed(d, doc_id)
       \/ d.documents[doc_id].content # "" /\ ~IsNone(classification)

\* The question process_document files the document under, once it has a
\* question text: the matched one or the one it creates.
ProcessedQuestionId(d, c, up) ==
    LET cluster_name == IF c.cluster \in CLUSTERS THEN c.cluster ELSE "General Inquiry"
        d1 == get_or_create_subcategory(d, ClusterIdOf(cluster_name), c.subcategory)
    IN StoredQuestionId(d1, find_similar_question(d1, c.question, up, SimilarityThresholdPct))

\* update_all_embeddings: backfill the questions stored without an embedding;
\* answered holds the questions for which the embedding call succeeds.
RECURSIVE BackfillRows(_, _, _, _)
BackfillRows(d, rows, i, answered) ==
    IF i > Len(rows) THEN d
    ELSE LET embedding == get_embedding(d.questions[rows[i]].canonical_text,
                                        rows[i] \in answered)
         IN BackfillRows(IF IsNone(embedding) THEN d
                         ELSE update_question_embedding(d, rows[i], embedding),
                         rows, i + 1, answered)

update_all_embeddings(d, answered) ==
    BackfillRows(d, RowIds({ q \in DOMAIN d.questions : IsNone(d.questions[q].embedding) }),
                 1, answered)

\* ------------------------------------------------------------ initial state
\* The database init_db leaves, with NumDocs scanned transcriptions pending.
EmptyDb ==
    [questions         |-> << >>,
     question_variants |-> << >>,
     scripts           |-> << >>,
     subcategories     |-> (34 :> [cluster_id |-> 8, name |-> "Other"]),
     documents         |-> [i \in 1..NumDocs |->
                              [content |-> "transcript", status |-> "pending",
                               error_message |-> "NULL", analysis_result |-> "NULL"]],
     merged_questions  |-> << >>,
     moderation_log    |-> << >>,
     daily_summary     |-> << >>,
     seq               |-> [questions |-> 0, question_variants |-> 0,
                            scripts |-> 0, subcategories |-> 34]]

\* What last records: the operation, the document, question and script it
\* was about (NullId where it has none), what it returned, and whether the
\* embedding service answered it.
Did(op, doc, q, s, ok, up) ==
    [op |-> op, doc |-> doc, q |-> q, s |-> s, ok |-> ok, up |-> up]
NoOp == Did("init", NullId, NullId, NullId, TRUE, FALSE)

\* The model's bounds on a database value.
Bounded(d) ==
    /\ d.seq.questions <= MaxQuestions
    /\ d.seq.scripts <= MaxScripts
    /\ d.seq.question_variants <= MaxVariants
    /\ Len(d.moderation_log) <= MaxLog
    /\ \A s \in DOMAIN d.scripts :
           d.scripts[s].success_count + d.scripts[s].fail_count <= MaxObs
    /\ \A q \in DOMAIN d.questions : d.questions[q].times_asked <= MaxAsked
    /\ "today" \in DOMAIN d.daily_summary =>
           d.daily_summary["today"].total_calls <= MaxCalls

\* ------------------------------------------------------------ filter rules
\* A text that a rule reads is a sequence of one-character strings.
Blank == { " " }
UpperCase == << "A", "B", "C", "D", "E", "F", "G", "H", "I", "J", "K", "L", "M", "N", "O", "P", "Q", "R", "S", "T", "U", "V", "W", "X", "Y", "Z" >>
LowerCase == << "a", "b", "c", "d", "e", "f", "g", "h", "i", "j", "k", "l", "m", "n", "o", "p", "q", "r", "s", "t", "u", "v", "w", "x", "y", "z" >>
Digits == << "0", "1", "2", "3", "4", "5", "6", "7", "8", "9" >>

\* str.lower
lower(text) ==
    [i \in DOMAIN text |->
        IF \E k \in DOMAIN UpperCase : UpperCase[k] = text[i]
        THEN LowerCase[CHOOSE k \in DOMAIN UpperCase : UpperCase[k] = text[i]]
        ELSE text[i]]

\* str.strip
strip(text) ==
    LET kept == { i \in DOMAIN text : text[i] \notin Blank }
    IN IF kept = {} THEN << >>
       ELSE SubSeq(text, CHOOSE i \in kept : \A j \in kept : i <= j,
                         CHOOSE i \in kept : \A j \in kept : j <= i)

\* len(text.split()): the number of maximal runs without a blank.
word_count(text) ==
    Cardinality({ i \in DOMAIN text :
                    text[i] \notin Blank /\ (i = 1 \/ text[i - 1] \in Blank) })

\* sub in text
Contains(text, sub) ==
    \E i \in 1..(Len(text) + 1) :
        /\ i + Len(sub) - 1 <= Len(text)
        /\ SubSeq(text, i, i + Len(sub) - 1) = sub

\* text.startswith(sub)
StartsWith(text, sub) ==
    Len(sub) <= Len(text) /\ SubSeq(text, 1, Len(sub)) = sub

RECURSIVE DigitsValue(_)
DigitsValue(ds) ==
    IF ds = << >> THEN 0
    ELSE 10 * DigitsValue(SubSeq(ds, 1, Len(ds) - 1))
         + (CHOOSE k \in DOMAIN Digits : Digits[k] = ds[Len(ds)]) - 1

\* int(condition): blanks around, an optional sign, then digits; None stands
\* for ValueError.
int(condition) ==
    LET stripped == strip(condition)
        signed == stripped # << >> /\ stripped[1] \in { "+", "-" }
        ds == IF signed THEN Tail(stripped) ELSE stripped
    IN IF ds = << >> \/ \E i \in DOMAIN ds : \A k \in DOMAIN Digits : Digits[k] # ds[i]
       THEN None
       ELSE Some(IF signed /\ stripped[1] = "-" THEN 0 - DigitsValue(ds) ELSE DigitsValue(ds))

\* re.search(condition, text, re.IGNORECASE) for a pattern of plain characters,
\* which matches where it occurs, and for the pattern "(", which does not
\* compile; None stands for re.error.
re_search(condition, text) ==
    IF condition = << "(" >> THEN None
    ELSE Some(Contains(lower(text), lower(condition)))

\* The body of the loop of apply_filter_rules up to "if matched".
Matched(rule, text) ==
    LET text_lower == strip(lower(text))
        condition == rule.condition_value
    IN CASE rule.rule_type = "contains" -> Contains(text_lower, lower(condition))
         [] rule.rule_type = "not_contains" -> ~Contains(text_lower, lower(condition))
         [] rule.rule_type = "word_count_lt" ->
               ~IsNone(int(condition)) /\ word_count(text) < int(condition)[1]
         [] rule.rule_type = "word_count_gt" ->
               ~IsNone(int(condition)) /\ word_count(text) > int(condition)[1]
         [] rule.rule_type = "starts_with" -> StartsWith(text_lower, lower(condition))
         [] rule.rule_type = "regex" ->
               ~IsNone(re_search(condition, text)) /\ re_search(condition, text)[1]
         [] OTHER -> FALSE

\* get_filter_rules: the rows newest first.  Rows created in the same second
\* come in an order SQL leaves open: pick names the row SQLite returns first
\* when it is one of them.
RECURSIVE RulesNewestFirst(_, _, _)
RulesNewestFirst(filter_rules, ids, pick) ==
    IF ids = {} THEN << >>
    ELSE LET newest == { r \in ids : \A o \in ids :
                            filter_rules[o].created_at <= filter_rules[r].created_at }
             first == IF pick \in newest THEN pick
                      ELSE CHOOSE r \in newest : \A o \in newest : r <= o
         IN << filter_rules[first] >> \o RulesNewestFirst(filter_rules, ids \ { first }, pick)

get_filter_rules(filter_rules, active_only, pick) ==
    RulesNewestFirst(filter_rules,
                     { r \in DOMAIN filter_rules : ~active_only \/ filter_rules[r].is_active },
                     pick)

\* The loop of apply_filter_rules: a matched rule returns when its action is
\* auto_reject or auto_approve; any other matched rule lets the loop go on.
RECURSIVE RuleLoop(_, _)
RuleLoop(rules, text) ==
    IF rules = << >> THEN "pending"
    ELSE IF Matched(Head(rules), text) /\ Head(rules).action = "auto_reject" THEN "rejected"
    ELSE IF Matched(Head(rules), text) /\ Head(rules).action = "auto_approve" THEN "approved"
    ELSE RuleLoop(Tail(rules), text)

apply_filter_rules(filter_rules, text, pick) ==
    IF text = << >> THEN "rejected"
    ELSE RuleLoop(get_filter_rules(filter_rules, TRUE, pick), text)

\* The rows init_db inserts into filter_rules, all in the same second.
default_filter_rules ==
    LET rows == <<
       << "contains", << "T", "h", "a", "n", "k", " ", "y", "o", "u", " ", "f", "o", "r", " ", "c", "a", "l", "l", "i", "n", "g" >> >>,
       << "contains", << "Y", "o", "u", "r", " ", "c", "a", "l", "l", " ", "i", "s", " ", "i", "m", "p", "o", "r", "t", "a", "n", "t" >> >>,
       << "contains", << "P", "l", "e", "a", "s", "e", " ", "h", "o", "l", "d" >> >>,
       << "contains", << "L", "e", "a", "v", "e", " ", "a", " ", "m", "e", "s", "s", "a", "g", "e" >> >>,
       << "contains", << "P", "r", "e", "s", "s", " ", "1" >> >>,
       << "contains", << "P", "r", "e", "s", "s", " ", "2" >> >>,
       << "contains", << "o", "f", "f", "i", "c", "e", " ", "h", "o", "u", "r", "s" >> >>,
       << "contains", << "c", "u", "r", "r", "e", "n", "t", "l", "y", " ", "c", "l", "o", "s", "e", "d" >> >>,
       << "contains", << "m", "a", "i", "l", "b", "o", "x", " ", "i", "s", " ", "f", "u", "l", "l" >> >>,
       << "contains", << "b", "e", "e", "p" >> >>,
       << "word_count_lt", << "1", "0" >> >> >>
    IN [r \in DOMAIN rows |->
          [rule_type |-> rows[r][1], condition_value |-> rows[r][2],
           action |-> "auto_reject", is_active |-> TRUE, created_at |-> 0]]

\* The characters of the texts questions are asked in.
Spelled(text) ==
    CASE text = "reset password" -> << "r", "e", "s", "e", "t", " ", "p", "a", "s", "s", "w", "o", "r", "d" >>
      [] text = "password reset" -> << "p", "a", "s", "s", "w", "o", "r", "d", " ", "r", "e", "s", "e", "t" >>
      [] text = "billing" -> << "b", "i", "l", "l", "i", "n", "g" >>
      [] OTHER -> << >>

\* apply_rules_to_existing_questions: every question gets the status the
\* rules give its text; nothing else is written.
apply_rules_to_existing_questions(d, filter_rules, pick) ==
    [d EXCEPT !.questions = [q \in DOMAIN d.questions |->
        [d.questions[q] EXCEPT !.moderation_status =
            apply_filter_rules(filter_rules, Spelled(d.questions[q].canonical_text), pick)]]]

\* ------------------------------------------------------ external results
ScriptA == Text(<< "hold", "power", "button", "for", "ten", "seconds", "until",
                   "screen", "turns", "black" >>, FALSE)
ScriptA2 == Text(<< "please" >> \o ScriptA.words, FALSE)
ScriptB == Text(<< "restart", "router" >>, FALSE)
ScriptShort == Text(<< "ok" >>, FALSE)

ScriptTexts == { ScriptA, ScriptA2, ScriptB, ScriptShort }

\* The scripts a transcript may hold: what the extraction reports of each.
ScriptKinds ==
    { [text |-> ScriptA, type |-> "instruction", has_steps |-> TRUE],
      [text |-> ScriptA2, type |-> "instruction", has_steps |-> TRUE],
      [text |-> ScriptB, type |-> "explanation", has_steps |-> FALSE],
      [text |-> ScriptShort, type |-> "explanation", has_steps |-> FALSE] }

\* resolved_issue of a script next to customer_satisfied of its transcript.
ScriptOutcomes ==
    { [resolved_issue |-> "absent", customer_satisfied |-> TRUE],
      [resolved_issue |-> "absent", customer_satisfied |-> FALSE],
      [resolved_issue |-> "yes", customer_satisfied |-> FALSE],
      [resolved_issue |-> "no", customer_satisfied |-> TRUE] }

ScriptDataOf(k, o) ==
    [text |-> k.text, type |-> k.type, has_steps |-> k.has_steps,
     resolved_issue |-> o.resolved_issue]

RECURSIVE SeqsUpTo(_, _)
SeqsUpTo(S, n) ==
    IF n = 0 THEN { << >> }
    ELSE LET shorter == SeqsUpTo(S, n - 1)
         IN shorter \cup { Append(q, x) : q \in { r \in shorter : Len(r) = n - 1 }, x \in S }

\* What extract_scripts may return: nothing (the call failed) or the scripts
\* of the transcript, each of a kind in Kinds with an outcome in Outcomes.
ExtractionsOf(Ks, Os) ==
    { None } \cup
    UNION { { Some([scripts |-> ss, customer_satisfied |-> o.customer_satisfied]) :
                ss \in SeqsUpTo({ ScriptDataOf(k, o) : k \in Ks }, MaxDocScripts) } :
            o \in Os }

\* What analyze_classification may return: nothing (the call failed), no
\* question, or a question under a seeded or a new subcategory.
NoQuestion == [cluster |-> "General Inquiry", subcategory |-> "Other", question |-> ""]
Asks(t) == [cluster |-> "General Inquiry", subcategory |-> "Other", question |-> t]
AsksElsewhere(t) == [cluster |-> "Billing", subcategory |-> "Refunds", question |-> t]

Classifications ==
    { None, Some(NoQuestion), Some(AsksElsewhere("billing")) } \cup
    { Some(Asks(t)) : t \in QuestionTexts }

ScriptIds == 1..MaxScripts
QuestionIds == 1..MaxQuestions

\* ---------------------------------------------------------------- actions
\* processing_status as the module sets it when it is loaded.
NotProcessing == [is_processing |-> FALSE]

Idle == proc = << >> /\ conn = << >> /\ probe = << >> /\ processing_status = NotProcessing
Rest == UNCHANGED << proc, conn, probe, processing_status >>

Init ==
    /\ db = EmptyDb
    /\ last = NoOp
    /\ Idle

\* Whether process_document gets as far as the embedding and extraction calls.
ReachesDedup(d, doc_id, classification) ==
    /\ doc_id \in DOMAIN d.documents
    /\ ~AlreadyProcessed(d, doc_id)
    /\ d.documents[doc_id].content # ""
    /\ ~IsNone(classification)
    /\ The(classification).question # ""

ProcessDocumentTo(after, doc_id, classification, up) ==
    /\ Bounded(after)
    /\ db' = after
    /\ last' = Did("process_document", doc_id,
                   IF ReachesDedup(db, doc_id, classification)
                   THEN ProcessedQuestionId(db, The(classification), up) ELSE NullId,
                   NullId, process_documentOk(db, doc_id, classification), up)
    /\ Rest

\* process_document(doc_id) with the external calls answering from the sets.
ProcessDocument(Cls, Ups, Exts) ==
    \E doc_id \in 1..NumDocs, classification \in Cls :
        IF ReachesDedup(db, doc_id, classification)
        THEN \E up \in Ups, extraction \in Exts, pick \in ScriptIds :
                 ProcessDocumentTo(
                     process_document(db, doc_id, classification, up, extraction, pick),
                     doc_id, classification, up)
        ELSE ProcessDocumentTo(
                 process_document(db, doc_id, classification, FALSE, None, 1),
                 doc_id, classification, FALSE)

UpdateAllEmbeddings ==
    \E answered \in SUBSET QuestionIds :
        /\ db' = update_all_embeddings(db, answered)
        /\ last' = Did("update_all_embeddings", NullId, NullId, NullId, TRUE, FALSE)
        /\ Rest

QuestionOf(d, script_id) ==
    IF script_id \in DOMAIN d.scripts THEN d.scripts[script_id].question_id ELSE NullId

UpdateScriptFeedback ==
    \E script_id \in ScriptIds, helpful \in BOOLEAN, pick \in ScriptIds :
        LET after == update_script_feedback(db, script_id, helpful, pick)
        IN /\ Bounded(after)
           /\ db' = after
           /\ last' = Did("update_script_feedback", NullId, QuestionOf(db, script_id),
                          script_id, TRUE, FALSE)
           /\ Rest

DeleteScript ==
    \E script_id \in ScriptIds, pick \in ScriptIds :
        LET after == delete_script(db, script_id, pick)
        IN /\ Bounded(after)
           /\ db' = after
           /\ last' = Did("delete_script", NullId, QuestionOf(db, script_id),
                          script_id, delete_scriptOk(db, script_id), FALSE)
           /\ Rest

SetBestScript ==
    \E question_id \in QuestionIds, script_id \in ScriptIds :
        LET after == set_best_script(db, question_id, script_id)
        IN /\ Bounded(after)
           /\ db' = after
           /\ last' = Did("set_best_script", NullId, question_id, script_id,
                          set_best_scriptOk(db, question_id), FALSE)
           /\ Rest

MergeQuestions ==
    \E source_id \in QuestionIds, target_id \in QuestionIds, pick \in ScriptIds :
        LET after == merge_questions(db, source_id, target_id, pick)
        IN /\ Bounded(after)
           /\ db' = after
           /\ last' = Did("merge_questions", NullId, target_id, source_id,
                          merge_questionsOk(db, source_id, target_id), FALSE)
           /\ Rest

DeleteQuestion ==
    \E question_id \in QuestionIds :
        LET after == delete_question(db, question_id, "NULL")
        IN /\ Bounded(after)
           /\ db' = after
           /\ last' = Did("delete_question", NullId, question_id, NullId,
                          delete_questionOk(db, question_id), FALSE)
           /\ Rest

\* The approve, reject and pending routes of one question.
ModerationStatuses == { "approved", "rejected", "pending" }

SetQuestionModerationStatus(Statuses) ==
    \E question_id \in QuestionIds, moderation_status \in Statuses :
        LET after == set_question_moderation_status(db, question_id, moderation_status, "")
        IN /\ Bounded(after)
           /\ db' = after
           /\ last' = Did("set_question_moderation_status", NullId, question_id, NullId,
                          set_question_moderation_statusOk(db, question_id), FALSE)
           /\ Rest

\* ----------------------------------------------------------- specifications
\* Spec: the knowledge base under the calls that file, score, rank, delete
\* and merge, one call at a time.  The transcripts ask one question and hold
\* one explanation; the embedding service answers every call.
Outcomes == { o \in ScriptOutcomes : o.customer_satisfied }
Explanations == { k \in ScriptKinds : k.text = ScriptB }

Next ==
    \/ ProcessDocument({ Some(Asks("reset password")) }, { TRUE },
                       ExtractionsOf(Explanations, Outcomes))
    \/ UpdateScriptFeedback
    \/ DeleteScript
    \/ SetBestScript
    \/ MergeQuestions
    \/ DeleteQuestion

Spec == Init /\ [][Next]_vars

\* SpecIngest: the ingest path alone, one document at a time, over every
\* answer the classifier and the embedding service may give.
NextIngest ==
    \/ ProcessDocument(Classifications, BOOLEAN,
                       ExtractionsOf({ k \in ScriptKinds : k.text = ScriptShort },
                                     ScriptOutcomes))
    \/ UpdateAllEmbeddings

SpecIngest == Init /\ [][NextIngest]_vars

\* SpecOverride: manual best-script overrides among the calls that file and
\* score.  A transcript holds two scripts, or one too short to keep;
\* questions get their vectors from the backfill.
OverrideScripts ==
    LET data(t) == ScriptDataOf(CHOOSE k \in ScriptKinds : k.text = t,
                                CHOOSE o \in Outcomes : o.resolved_issue = "absent")
    IN { << data(ScriptA), data(ScriptB) >>, << data(ScriptShort) >> }

OverrideExtractions ==
    { Some([scripts |-> ss, customer_satisfied |-> TRUE]) : ss \in OverrideScripts }

\* The feedback calls SpecOverride follows: up to MaxOverrideObs observations
\* of a script.
MaxOverrideObs == 2

FewObservations ==
    \A s \in DOMAIN db.scripts :
        db.scripts[s].success_count + db.scripts[s].fail_count <= MaxOverrideObs

NextOverride ==
    \/ ProcessDocument({ Some(Asks("reset password")) }, { TRUE }, OverrideExtractions)
    \/ UpdateAllEmbeddings
    \/ UpdateScriptFeedback /\ FewObservations'
    \/ DeleteScript
    \/ SetBestScript
    \/ SetQuestionModerationStatus({ "approved" })

SpecOverride == Init /\ [][NextOverride]_vars

\* SpecAsked: transcripts filed one at a time, the backfill, and merges of
\* two different questions; no script is extracted.
AskedClassifications ==
    { Some(Asks("reset password")), Some(Asks("password reset")), Some(Asks("billing")) }

NextAsked ==
    \/ ProcessDocument(AskedClassifications, BOOLEAN, { None })
    \/ UpdateAllEmbeddings
    \/ MergeQuestions /\ last'.s # last'.q

SpecAsked == Init /\ [][NextAsked]_vars

\* ------------------------------------------------------------ batch runs
\* A script of an extraction whose "text" is null: .strip() on it raises.
NullTextScript == [null_text |-> TRUE]
MalformedExtraction == Some([scripts |-> << NullTextScript >>, customer_satisfied |-> FALSE])
ExceptionText == "'NoneType' object has no attribute 'strip'"

\* Whether the script loop of process_document raises on its first pass.
Raises(extraction) ==
    /\ ~IsNone(extraction)
    /\ The(extraction).scripts # << >>
    /\ "null_text" \in DOMAIN Head(The(extraction).scripts)

\* The database process_document leaves when it raises there: the dedup step
\* is committed, the status and the daily summary are not written.
AfterDedup(d, doc_id, classification, up) ==
    LET c == The(classification)
        cluster_name == IF c.cluster \in CLUSTERS THEN c.cluster ELSE "General Inquiry"
        cluster_id == ClusterIdOf(cluster_name)
        subcategory_id == SubcategoryIdOf(d, cluster_id, c.subcategory)
        d1 == get_or_create_subcategory(d, cluster_id, c.subcategory)
        match_result == find_similar_question(d1, c.question, up, SimilarityThresholdPct)
    IN StoreQuestion(d1, match_result, doc_id, c.question, cluster_id, subcategory_id)

\* One call of process_document: the database it leaves, whether it raised,
\* and what it returned if it did not.
RunDocument(d, doc_id, classification, up, extraction, pick) ==
    IF ReachesDedup(d, doc_id, classification) /\ Raises(extraction)
    THEN [db |-> AfterDedup(d, doc_id, classification, up), raised |-> TRUE, ok |-> FALSE]
    ELSE [db |-> process_document(d, doc_id, classification, up, extraction, pick),
          raised |-> FALSE, ok |-> process_documentOk(d, doc_id, classification)]

\* get_pending_documents(limit=100), oldest first.
BatchLimit == 100

\* A SELECT that takes every document not yet processed, oldest first.
get_pending_documentsUnfinished(d, limit) ==
    LET rows == RowIds({ doc_id \in DOMAIN d.documents :
                           d.documents[doc_id].status # "processed" })
    IN IF Len(rows) <= limit THEN rows ELSE SubSeq(rows, 1, limit)

get_pending_documents(d, limit) ==
    LET rows == RowIds({ doc_id \in DOMAIN d.documents :
                           d.documents[doc_id].status = "pending" })
    IN IF Len(rows) <= limit THEN rows ELSE SubSeq(rows, 1, limit)

\* F of the value of x, with x computed once.
With(x, F(_)) == CHOOSE y \in { F(v) : v \in { x } } : TRUE

\* A loop that lets the exception of a document end the batch.
RECURSIVE BatchLoopAborting(_, _, _, _, _, _)
BatchLoopAborting(d, pending, i, answers, processed, errors) ==
    IF i > Len(pending) THEN [db |-> d, processed |-> processed, errors |-> errors]
    ELSE LET a == answers[pending[i]]
             Go(r) == IF r.raised
                      THEN [db |-> r.db, processed |-> processed, errors |-> errors]
                      ELSE BatchLoopAborting(r.db, pending, i + 1, answers,
                                             processed + (IF r.ok THEN 1 ELSE 0),
                                             errors + (IF r.ok THEN 0 ELSE 1))
         IN With(RunDocument(d, pending[i], a.classification, a.up, a.extraction, 1), Go)

\* The loop of process_pending_documents: a document that raises is marked
\* 'error' with the exception's text and counted as an error.
RECURSIVE BatchLoop(_, _, _, _, _, _)
BatchLoop(d, pending, i, answers, processed, errors) ==
    IF i > Len(pending) THEN [db |-> d, processed |-> processed, errors |-> errors]
    ELSE LET a == answers[pending[i]]
             Go(r) == IF r.raised
                      THEN BatchLoop(update_document_status(r.db, pending[i], "error",
                                                            ExceptionText, "NULL"),
                                     pending, i + 1, answers, processed, errors + 1)
                      ELSE BatchLoop(r.db, pending, i + 1, answers,
                                     processed + (IF r.ok THEN 1 ELSE 0),
                                     errors + (IF r.ok THEN 0 ELSE 1))
         IN With(RunDocument(d, pending[i], a.classification, a.up, a.extraction, 1), Go)

\* process_pending_documents with get_pending_documents(limit=limit): the
\* database it leaves and the triple it returns.
process_pending_documentsUpTo(d, answers, limit) ==
    LET pending == get_pending_documents(d, limit)
    IN BatchLoop(d, pending, 1, answers, 0, 0) @@ [total |-> Len(pending), pending |-> pending]

process_pending_documents(d, answers) == process_pending_documentsUpTo(d, answers, BatchLimit)

\* What the services answer for one document of a batch.
BatchAnswers ==
    [classification : { None, Some(Asks("reset password")) }, up : { FALSE },
     extraction : { None, MalformedExtraction }]

\* A batch run: the scheduled run or /api/process-all with nothing new in the
\* watched folder.
ProcessPendingDocumentsUpTo(limit) ==
    \E answers \in [1..NumDocs -> BatchAnswers] :
        \E r \in { process_pending_documentsUpTo(db, answers, limit) } :
           /\ Bounded(r.db)
           /\ db' = r.db
           /\ last' = Did("process_pending_documents", NullId, NullId, NullId, TRUE, FALSE)
                      @@ [processed |-> r.processed, errors |-> r.errors,
                          total |-> r.total, pending |-> r.pending]
           /\ Rest

\* /api/process/<doc_id>: an exception of process_document ends the request
\* with what was committed until then.
ApiProcessDocument ==
    \E doc_id \in 1..NumDocs, a \in BatchAnswers :
        \E r \in { RunDocument(db, doc_id, a.classification, a.up, a.extraction, 1) } :
           /\ Bounded(r.db)
           /\ db' = r.db
           /\ last' = Did("process_document", doc_id,
                          IF ReachesDedup(db, doc_id, a.classification)
                          THEN ProcessedQuestionId(db, The(a.classification), a.up)
                          ELSE NullId,
                          NullId, r.ok, a.up)
                      @@ [raised |-> r.raised]
           /\ Rest

ProcessPendingDocuments == ProcessPendingDocumentsUpTo(BatchLimit)

NextBatch ==
    \/ ProcessPendingDocuments
    \/ ApiProcessDocument

SpecBatch == Init /\ [][NextBatch]_vars

\* SpecBatchFair: the scheduler keeps starting batch runs, each of which
\* returns; the limit of a batch is scaled down to SmallBatch so that a
\* batch leaves pending documents behind.
SmallBatch == 1

NextBatchFair ==
    \/ ProcessPendingDocumentsUpTo(SmallBatch)
    \/ ApiProcessDocument

SpecBatchFair ==
    Init /\ [][NextBatchFair]_vars /\ WF_vars(ProcessPendingDocumentsUpTo(SmallBatch))

\* ----------------------------------------- process_document, step by step
\* Worker threads run process_document at the same time, one
\* database transaction (one "with get_db()" block) or one external call per
\* step, next to feedback calls of the API and the embedding backfill.  A
\* transaction that writes waits while another connection holds the write
\* lock; the scoring transactions run statement by statement on the
\* connection's own view and become visible as get_db commits them.
NumWorkers == 2
Workers == 1..NumWorkers

ProcIdle ==
    [pc |-> "idle", doc_id |-> NullId, c |-> NoQuestion, up |-> FALSE,
     cluster_id |-> NullId, subcategory_id |-> NullId, match_result |-> NoResult,
     question_id |-> NullId, new_question |-> FALSE, extraction |-> None,
     todo |-> << >>, existing_script |-> NullId, scripts_added |-> 0,
     status |-> "", error_message |-> "NULL", ok |-> FALSE]

\* A connection in autocommit mode: every statement is visible at once.
CommittedEach(d, work, block_ended) == work

\* get_db: the statements of a with block are committed when the block ends.
Committed(d, work, block_ended) == IF block_ended THEN work ELSE d

LockFree == conn = << >>

InitConc ==
    /\ db = EmptyDb
    /\ last = NoOp
    /\ proc = [w \in Workers |-> ProcIdle]
    /\ conn = << >>
    /\ probe = << >>
    /\ processing_status = NotProcessing

\* process_document(doc_id): get_document, the early returns and the
\* classification call, from the locals p of the thread that runs it.
Begun(p0, doc_id, classification) ==
    LET doc == db.documents[doc_id]
        p == [p0 EXCEPT !.doc_id = doc_id]
    IN IF doc.status = "processed" THEN [p EXCEPT !.pc = "done", !.ok = TRUE]
       ELSE IF doc.content = ""
       THEN [p EXCEPT !.pc = "status", !.status = "error",
                      !.error_message = "No content"]
       ELSE IF IsNone(classification)
       THEN [p EXCEPT !.pc = "status", !.status = "error",
                      !.error_message = "Classification failed"]
       ELSE IF The(classification).question = ""
       THEN [p EXCEPT !.pc = "status", !.status = "processed",
                      !.c = The(classification), !.ok = TRUE]
       ELSE [p EXCEPT !.pc = "subcategory", !.c = The(classification),
                      !.cluster_id = ClusterIdOf(
                          IF The(classification).cluster \in CLUSTERS
                          THEN The(classification).cluster ELSE "General Inquiry")]

BeginOn(w, doc_id, Cls) ==
    /\ proc[w].pc = "idle"
    /\ \E classification \in Cls :
        proc' = [proc EXCEPT ![w] = Begun(proc[w], doc_id, classification)]
    /\ UNCHANGED << db, last, conn, probe, processing_status >>

\* Worker w processes the document of its own number.
Begin(w, Cls) == BeginOn(w, w, Cls)

\* get_or_create_subcategory: the lookup, then the INSERT in a transaction of
\* its own, which UNIQUE(cluster_id, name) rejects when the row exists by then.
Subcategory(w) ==
    LET p == proc[w]
        found == SubcategoryByName(db, p.cluster_id, p.c.subcategory)
    IN IF p.pc = "subcategory"
       THEN /\ proc' = [proc EXCEPT ![w] =
                  IF found # {}
                  THEN [p EXCEPT !.pc = "resolve",
                                 !.subcategory_id = CHOOSE i \in found : TRUE]
                  ELSE [p EXCEPT !.pc = "subcategory_insert"]]
            /\ UNCHANGED << db, last, conn, probe, processing_status >>
       ELSE /\ p.pc = "subcategory_insert"
            /\ LockFree
            /\ IF found # {}
               THEN /\ proc' = [proc EXCEPT ![w] = [p EXCEPT !.pc = "done", !.ok = FALSE]]
                    /\ UNCHANGED << db, last >>
               ELSE /\ db' = get_or_create_subcategory(db, p.cluster_id, p.c.subcategory)
                    /\ proc' = [proc EXCEPT ![w] =
                          [p EXCEPT !.pc = "resolve",
                                    !.subcategory_id = NextId(db, "subcategories")]]
                    /\ last' = Did("get_or_create_subcategory", p.doc_id, NullId, NullId,
                                   TRUE, FALSE)
            /\ UNCHANGED << conn, probe, processing_status >>

\* find_similar_question: the embedding call and the read of the stored vectors.
ResolveQuestion(w, Ups) ==
    /\ proc[w].pc = "resolve"
    /\ \E up \in Ups :
        proc' = [proc EXCEPT ![w] =
            [@ EXCEPT !.pc = "store", !.up = up,
                      !.match_result = find_similar_question(db, proc[w].c.question, up,
                                                             SimilarityThresholdPct)]]
    /\ UNCHANGED << db, last, conn, probe, processing_status >>

\* add_question_variant on a match, add_question otherwise.
StoreQuestionStep(w) ==
    LET p == proc[w]
        matched == MatchedQuestion(p.match_result)
        after == IF matched
                 THEN add_question_variant(db, p.match_result.question_id, p.c.question,
                                           p.doc_id)
                 ELSE add_question(db, p.cluster_id, p.c.question,
                                   IF p.match_result.none THEN None
                                   ELSE p.match_result.embedding,
                                   p.subcategory_id)
    IN /\ p.pc = "store"
       /\ LockFree
       /\ Bounded(after)
       /\ db' = after
       /\ proc' = [proc EXCEPT ![w] =
             [p EXCEPT !.pc = IF matched THEN "asked" ELSE "extract",
                       !.question_id = StoredQuestionId(db, p.match_result),
                       !.new_question = ~matched]]
       /\ last' = Did(IF matched THEN "add_question_variant" ELSE "add_question",
                      p.doc_id, StoredQuestionId(db, p.match_result), NullId, TRUE, p.up)
       /\ UNCHANGED << conn, probe, processing_status >>

Asked(w) ==
    LET p == proc[w]
        after == increment_question_asked(db, p.question_id)
    IN /\ p.pc = "asked"
       /\ LockFree
       /\ Bounded(after)
       /\ db' = after
       /\ proc' = [proc EXCEPT ![w] = [p EXCEPT !.pc = "extract"]]
       /\ last' = Did("increment_question_asked", p.doc_id, p.question_id, NullId,
                      TRUE, p.up)
       /\ UNCHANGED << conn, probe, processing_status >>

\* Where the script loop goes on with the scripts left.
AfterScript(todo) == IF todo = << >> THEN "recalc" ELSE "find_script"

\* extract_scripts: the scripts to file, if the call returned any.
Extract(w, Exts) ==
    /\ proc[w].pc = "extract"
    /\ \E extraction \in Exts :
        LET has_scripts == ~IsNone(extraction) /\ The(extraction).scripts # << >>
        IN proc' = [proc EXCEPT ![w] =
              [@ EXCEPT !.pc = IF has_scripts THEN "find_script" ELSE "status",
                        !.extraction = extraction,
                        !.todo = IF has_scripts THEN The(extraction).scripts ELSE << >>,
                        !.status = "processed", !.ok = TRUE]]
    /\ UNCHANGED << db, last, conn, probe, processing_status >>

\* The head of the script loop: skip a short text, else find_similar_script.
FindScript(w) ==
    LET p == proc[w]
        script_data == Head(p.todo)
        existing_script == find_similar_script(db, p.question_id, script_data.text)
    IN /\ p.pc = "find_script"
       /\ proc' = [proc EXCEPT ![w] =
             IF TextLen(script_data.text) < MinScriptLen
             THEN [p EXCEPT !.todo = Tail(@), !.pc = AfterScript(Tail(p.todo))]
             ELSE [p EXCEPT !.existing_script = existing_script,
                            !.pc = IF existing_script # NullId THEN "update_count"
                                   ELSE "add_script"]]
       /\ UNCHANGED << db, last, conn, probe, processing_status >>

AddScriptStep(w) ==
    LET p == proc[w]
        script_data == Head(p.todo)
        resolved == ResolvedOf(script_data, The(p.extraction).customer_satisfied)
    IN /\ p.pc = "add_script"
       /\ LockFree
       /\ \E pick \in 1..MaxScripts :
           LET after == add_script(db, p.question_id, script_data.text, script_data.type,
                                   script_data.has_steps, resolved, p.doc_id, pick)
           IN /\ Bounded(after)
              /\ db' = after
       /\ proc' = [proc EXCEPT ![w] =
             [p EXCEPT !.todo = Tail(@), !.pc = AfterScript(Tail(p.todo)),
                       !.scripts_added = @ + 1]]
       /\ last' = Did("add_script", p.doc_id, p.question_id, NextId(db, "scripts"),
                      TRUE, FALSE)
       /\ UNCHANGED << conn, probe, processing_status >>

\* The first statement of update_script_count: the counter UPDATE.
OpenCount(w) ==
    LET p == proc[w]
        resolved == ResolvedOf(Head(p.todo), The(p.extraction).customer_satisfied)
        work == IncrementCount(db, p.existing_script, resolved)
    IN /\ p.pc = "update_count"
       /\ LockFree
       /\ Bounded(work)
       /\ conn' = << [owner |-> w, op |-> "update_script_count",
                      script_id |-> p.existing_script, work |-> work,
                      stage |-> "effectiveness"] >>
       /\ db' = Committed(db, work, FALSE)
       /\ proc' = [proc EXCEPT ![w] = [p EXCEPT !.pc = "in_transaction"]]
       /\ UNCHANGED << last, probe, processing_status >>

\* The first statement of update_script_feedback, called through the API.
OpenFeedback ==
    /\ LockFree
    /\ \E script_id \in 1..MaxScripts, helpful \in BOOLEAN :
        LET work == IncrementCount(db, script_id, helpful)
        IN /\ Bounded(work)
           /\ conn' = << [owner |-> NullId, op |-> "update_script_feedback",
                          script_id |-> script_id, work |-> work,
                          stage |-> "effectiveness"] >>
           /\ db' = Committed(db, work, FALSE)
    /\ UNCHANGED << last, proc, probe, processing_status >>

\* _update_script_effectiveness inside the open transaction.
TxEffectiveness ==
    /\ conn # << >>
    /\ conn[1].stage = "effectiveness"
    /\ LET work == update_script_effectiveness(conn[1].work, conn[1].script_id)
       IN /\ conn' = << [conn[1] EXCEPT !.work = work, !.stage = "best"] >>
          /\ db' = Committed(db, work, FALSE)
    /\ UNCHANGED << last, proc, probe, processing_status >>

\* _update_best_script inside the open transaction, and the end of the block.
TxBest ==
    /\ conn # << >>
    /\ conn[1].stage = "best"
    /\ \E pick \in 1..MaxScripts :
        LET t == conn[1]
            question_id == IF t.script_id \in DOMAIN t.work.scripts
                           THEN t.work.scripts[t.script_id].question_id ELSE NullId
            work == IF question_id # NullId
                    THEN update_best_script(t.work, question_id, pick) ELSE t.work
        IN /\ db' = Committed(db, work, TRUE)
           /\ last' = Did(t.op, NullId, question_id, t.script_id, TRUE, FALSE)
           /\ proc' = IF t.owner \in Workers
                      THEN [proc EXCEPT ![t.owner] =
                              [@ EXCEPT !.todo = Tail(@),
                                        !.pc = AfterScript(Tail(proc[t.owner].todo))]]
                      ELSE proc
    /\ conn' = << >>
    /\ UNCHANGED << probe, processing_status >>

Recalc(w) ==
    LET p == proc[w]
    IN /\ p.pc = "recalc"
       /\ LockFree
       /\ \E pick \in 1..MaxScripts :
              db' = recalculate_best_script(db, p.question_id, pick)
       /\ proc' = [proc EXCEPT ![w] = [p EXCEPT !.pc = "status"]]
       /\ last' = Did("recalculate_best_script", p.doc_id, p.question_id, NullId,
                      TRUE, FALSE)
       /\ UNCHANGED << conn, probe, processing_status >>

\* update_document_status, the last statement of the failing paths.
WriteStatus(w) ==
    LET p == proc[w]
    IN /\ p.pc = "status"
       /\ LockFree
       /\ db' = update_document_status(db, p.doc_id, p.status, p.error_message,
                                       IF p.status = "processed" THEN p.c.question
                                       ELSE "NULL")
       /\ proc' = [proc EXCEPT ![w] =
             [p EXCEPT !.pc = IF p.status = "processed" THEN "daily" ELSE "done"]]
       /\ last' = Did("update_document_status", p.doc_id, NullId, NullId, TRUE, FALSE)
       /\ UNCHANGED << conn, probe, processing_status >>

WriteDaily(w) ==
    LET p == proc[w]
        resolved_count == IF ~IsNone(p.extraction) /\ The(p.extraction).customer_satisfied
                          THEN 1 ELSE 0
        after == IF p.c.question = ""
                 THEN update_daily_summary(db, 1, 0, 0, 0, 0)
                 ELSE update_daily_summary(db, 1, IF p.new_question THEN 1 ELSE 0,
                                           p.scripts_added, resolved_count,
                                           1 - resolved_count)
    IN /\ p.pc = "daily"
       /\ LockFree
       /\ Bounded(after)
       /\ db' = after
       /\ proc' = [proc EXCEPT ![w] = [p EXCEPT !.pc = "done"]]
       /\ last' = Did("process_document", p.doc_id, p.question_id, NullId, TRUE, p.up)
       /\ UNCHANGED << conn, probe, processing_status >>

\* One pass of the loop of update_all_embeddings over the questions stored
\* without an embedding, for a question the embedding service answers for.
BackfillQuestion ==
    /\ LockFree
    /\ \E q \in DOMAIN db.questions :
        /\ IsNone(db.questions[q].embedding)
        /\ db' = update_question_embedding(db, q,
                     get_embedding(db.questions[q].canonical_text, TRUE))
        /\ last' = Did("update_question_embedding", NullId, q, NullId, TRUE, TRUE)
    /\ UNCHANGED << proc, conn, probe, processing_status >>

\* SpecConc: two workers file near-identical questions at the same time; the
\* script extraction fails, so the runs end after the dedup step.
ConcClassifications == { Some(Asks("reset password")), Some(Asks("password reset")) }

NextConc ==
    \/ \E w \in Workers :
        \/ Begin(w, ConcClassifications)
        \/ Subcategory(w)
        \/ ResolveQuestion(w, BOOLEAN)
        \/ StoreQuestionStep(w)
        \/ Asked(w)
        \/ Extract(w, { None })
        \/ WriteStatus(w)
        \/ WriteDaily(w)
    \/ BackfillQuestion

SpecConc == InitConc /\ [][NextConc]_vars

\* SpecTx: one process_document at a time (the scheduler thread), its
\* transactions interleaved with the statements of feedback calls and with
\* the backfill.  The transcripts ask one question and hold one script.
Alone(w) == \A v \in Workers \ { w } : proc[v].pc \in { "idle", "done" }
TxKinds == { k \in ScriptKinds : k.text \in { ScriptA, ScriptB } }

NextTx ==
    \/ \E w \in Workers :
        \/ Begin(w, { Some(Asks("reset password")) }) /\ Alone(w)
        \/ Subcategory(w)
        \/ ResolveQuestion(w, { TRUE })
        \/ StoreQuestionStep(w)
        \/ Asked(w)
        \/ Extract(w, ExtractionsOf(TxKinds, Outcomes))
        \/ FindScript(w)
        \/ AddScriptStep(w)
        \/ OpenCount(w)
        \/ Recalc(w)
        \/ WriteStatus(w)
        \/ WriteDaily(w)
    \/ OpenFeedback
    \/ TxEffectiveness
    \/ TxBest
    \/ BackfillQuestion

SpecTx == InitConc /\ [][NextTx]_vars

\* SpecModeration: the moderation routes on questions filed without scripts;
\* filter_rules holds the rows init_db seeds.
BulkActions == { "approve", "reject", "delete", "archive" }
MaxBulk == 2

\* api_admin_bulk_action: no ids or an unknown action is answered with 400.
BulkAction ==
    \E question_ids \in SeqsUpTo(QuestionIds, MaxBulk), action \in BulkActions :
        LET moderation_status == IF action = "approve" THEN "approved" ELSE "rejected"
            after == IF question_ids = << >> \/ action = "archive" THEN db
                     ELSE IF action = "delete"
                          THEN bulk_delete_questions(db, question_ids, "")
                          ELSE bulk_set_moderation_status(db, question_ids,
                                                          moderation_status, "")
            count == IF action = "delete"
                     THEN bulk_delete_questionsCount(db, question_ids)
                     ELSE bulk_set_moderation_statusCount(db, question_ids)
        IN /\ Bounded(after)
           /\ db' = after
           /\ last' = Did("api_admin_bulk_action", NullId, NullId, NullId,
                          question_ids # << >> /\ action # "archive", FALSE)
                      @@ [question_ids |-> question_ids, action |-> action,
                          count |-> count]
           /\ Rest

\* api_admin_update_question with a new text, a new status, both or neither,
\* as the request body gives them; the request names no cluster.
AdminUpdateQuestionWith(Texts, Statuses) ==
    \E question_id \in QuestionIds, canonical_text \in Texts, moderation_status \in Statuses :
        LET edited == IF IsNone(canonical_text) THEN db
                      ELSE update_question_text(db, question_id, canonical_text[1])
            after == IF IsNone(moderation_status) THEN edited
                     ELSE set_question_moderation_status(edited, question_id,
                                                         moderation_status[1], "NULL")
        IN /\ Bounded(after)
           /\ db' = after
           /\ last' = Did("api_admin_update_question", NullId, question_id, NullId,
                          TRUE, FALSE)
           /\ Rest

\* api_admin_apply_rules.  The seeded rules all reject, so the order among
\* them, which SQL leaves open, decides nothing: one order is taken.
ApplyRulesToExistingQuestions ==
    \E pick \in { 1 } :
        /\ db' = apply_rules_to_existing_questions(db, default_filter_rules, pick)
        /\ last' = Did("apply_rules_to_existing_questions", NullId, NullId, NullId,
                       TRUE, FALSE)
        /\ Rest

AdminUpdateQuestion ==
    AdminUpdateQuestionWith({ None, Some("billing") }, { None, Some("rejected") })

\* SpecStatus: the routes that set a question's moderation status, on
\* questions filed without scripts.  The update route passes on the
\* "moderation_status" of the request body, here one of the three statuses
\* or "archived".
RequestStatuses == { None, Some("pending"), Some("approved"), Some("rejected"),
                     Some("archived") }

NextStatus ==
    \/ ProcessDocument({ Some(Asks("reset password")) }, { FALSE }, { None })
    \/ SetQuestionModerationStatus(ModerationStatuses)
    \/ AdminUpdateQuestionWith({ None }, RequestStatuses)

SpecStatus == Init /\ [][NextStatus]_vars

NextModeration ==
    \/ ProcessDocument({ Some(Asks("reset password")) }, { FALSE }, { None })
    \/ SetQuestionModerationStatus({ "approved" })
    \/ BulkAction
    \/ AdminUpdateQuestion
    \/ ApplyRulesToExistingQuestions

SpecModeration == Init /\ [][NextModeration]_vars

\* ------------------------------------------------ merge_questions, step by step
\* The statements of merge_questions after its two lookups, in order.
MergeStages == << "move_variants", "insert_variant", "move_scripts", "times_asked",
                  "merge_record", "delete_source", "best_script", "log" >>

NextMergeStage(stage) ==
    MergeStages[(CHOOSE i \in 1..Len(MergeStages) : MergeStages[i] = stage) + 1]

\* One statement of merge_questions on the connection's view of the database.
MergeStatement(work, stage, t, pick) ==
    CASE stage = "move_variants" ->
           [work EXCEPT !.question_variants = [v \in DOMAIN @ |->
               IF @[v].question_id = t.source
               THEN [@[v] EXCEPT !.question_id = t.target] ELSE @[v]]]
      [] stage = "insert_variant" ->
           add_question_variant(work, t.target, t.source_text, NullId)
      [] stage = "move_scripts" ->
           [work EXCEPT !.scripts = [s \in DOMAIN @ |->
               IF @[s].question_id = t.source
               THEN [@[s] EXCEPT !.question_id = t.target] ELSE @[s]]]
      [] stage = "times_asked" ->
           [work EXCEPT !.questions[t.target].times_asked = @ + t.source_times]
      [] stage = "merge_record" ->
           [work EXCEPT !.merged_questions = Append(@,
               [source_question_id |-> t.source, target_question_id |-> t.target,
                source_canonical_text |-> t.source_text])]
      [] stage = "delete_source" ->
           [work EXCEPT !.questions = Delete(@, { t.source })]
      [] stage = "best_script" ->
           update_best_script(work, t.target, pick)
      [] OTHER ->
           add_moderation_log(work, t.target, NullId, "merged",
                              "Merged question #" \o ToString(t.source)
                                  \o " into this question",
                              t.source_text, "NULL")

\* The lookups of source and target and, when both exist, the first UPDATE,
\* which opens the transaction.
OpenMerge ==
    /\ LockFree
    /\ \E source \in QuestionIds : \E target \in QuestionIds \ { source } :
        IF ~merge_questionsOk(db, source, target)
        THEN /\ last' = Did("merge_questions", NullId, target, source, FALSE, FALSE)
             /\ UNCHANGED << db, conn >>
        ELSE LET t == [owner |-> NullId, op |-> "merge_questions", script_id |-> NullId,
                       source |-> source, target |-> target,
                       source_text |-> db.questions[source].canonical_text,
                       source_times |-> IF db.questions[source].times_asked = 0 THEN 1
                                        ELSE db.questions[source].times_asked]
                 work == MergeStatement(db, "move_variants", t, 1)
             IN /\ Bounded(merge_questions(db, source, target, 1))
                /\ conn' = << t @@ [work |-> work, stage |-> "insert_variant"] >>
                /\ db' = Committed(db, work, FALSE)
                /\ UNCHANGED last
    /\ UNCHANGED << proc, probe, processing_status >>

\* The next statement of the open merge; the block ends after the log entry.
MergeNext ==
    /\ conn # << >>
    /\ conn[1].op = "merge_questions"
    /\ \E pick \in ScriptIds :
        LET t == conn[1]
            work == MergeStatement(t.work, t.stage, t, pick)
            block_ended == t.stage = "log"
        IN /\ db' = Committed(db, work, block_ended)
           /\ conn' = IF block_ended THEN << >>
                      ELSE << [t EXCEPT !.work = work, !.stage = NextMergeStage(t.stage)] >>
           /\ last' = IF block_ended
                      THEN Did("merge_questions", NullId, t.target, t.source, TRUE, FALSE)
                      ELSE last
    /\ UNCHANGED << proc, probe, processing_status >>

\* SpecMerge: an administrator merges questions while two workers file
\* documents.  A third transcript was filed on an earlier day under question
\* 1, with one script, and the backfill has stored the question's vector; the
\* two documents ask about it in other words, or about something else.
SeedDb ==
    LET scanned == [EmptyDb EXCEPT !.documents = Append(@, @[1])]
        filed == process_document(scanned, NumDocs + 1, Some(Asks("reset password")), TRUE,
                     Some([scripts |-> << ScriptDataOf(
                                CHOOSE k \in ScriptKinds : k.text = ScriptB,
                                CHOOSE o \in Outcomes : o.resolved_issue = "absent") >>,
                           customer_satisfied |-> TRUE]), 1)
    IN [update_all_embeddings(filed, { 1 }) EXCEPT !.daily_summary = << >>]

InitMerge ==
    /\ db = SeedDb
    /\ last = NoOp
    /\ proc = [w \in Workers |-> ProcIdle]
    /\ conn = << >>
    /\ probe = << >>
    /\ processing_status = NotProcessing

MergeClassifications == { Some(Asks("password reset")), Some(Asks("billing")) }

NextMerge ==
    \/ \E w \in Workers :
        \/ Begin(w, MergeClassifications)
        \/ Subcategory(w)
        \/ ResolveQuestion(w, BOOLEAN)
        \/ StoreQuestionStep(w)
        \/ Asked(w)
        \/ Extract(w, { None })
        \/ WriteStatus(w)
        \/ WriteDaily(w)
    \/ BackfillQuestion
    \/ OpenMerge
    \/ MergeNext

SpecMerge == InitMerge /\ [][NextMerge]_vars

\* SpecResolve: the decision of find_similar_question on its own, over small
\* corpora, candidate vectors, thresholds and rounding directions.
ProbeVectors == { << 4, 0 >>, << 4, 1 >>, << 0, 3 >>, << 4, 4 >> }
ProbeThresholds == { 0 - 50, 0, 82, 100 }
MaxCorpus == 2

\* The rows get_all_questions_with_embeddings returns for stored vectors vs.
CorpusRows(vs) ==
    [i \in 1..Len(vs) |-> [id |-> i, canonical_text |-> "",
                           embedding |-> deserialize_embedding(serialize_embedding(Some(vs[i])))]]

ProbeInputs ==
    UNION { { [rows |-> CorpusRows(vs), new_embedding |-> e, thresholdPct |-> t,
               round |-> r, result |-> None] :
                e \in ProbeVectors, t \in ProbeThresholds,
                r \in [{ vs[i] : i \in 1..Len(vs) } -> { 0 - 1, 0, 1 }] } :
            vs \in SeqsUpTo(ProbeVectors, MaxCorpus) }

InitResolve ==
    /\ db = EmptyDb
    /\ last = NoOp
    /\ proc = << >>
    /\ conn = << >>
    /\ probe \in ProbeInputs
    /\ processing_status = NotProcessing

Resolve ==
    /\ IsNone(probe.result)
    /\ probe' = [probe EXCEPT !.result =
                    Some(ResolveRows(probe.rows, Some(probe.new_embedding),
                                     probe.thresholdPct, probe.round))]
    /\ UNCHANGED << db, last, proc, conn, processing_status >>

NextResolve == Resolve

SpecResolve == InitResolve /\ [][NextResolve]_vars

\* SpecCosine: cosine_similarity on its own, over vectors that are empty, all
\* zero, of different lengths, orthogonal, opposite and oblique.
CosineVectors ==
    { << >>, << 0, 0 >>, << 4 >>, << 4, 0 >>, << 4, 1 >>, << 0, 3 >>, << 0 - 4, 0 >> }

CosineProbes ==
    [vec1 : CosineVectors, vec2 : CosineVectors, round : { 0 - 1, 0, 1 }, result : { None }]

InitCosine ==
    /\ db = EmptyDb
    /\ last = NoOp
    /\ proc = << >>
    /\ conn = << >>
    /\ probe \in CosineProbes
    /\ processing_status = NotProcessing

CosineSimilarity ==
    /\ IsNone(probe.result)
    /\ probe' = [probe EXCEPT !.result =
                    Some(cosine_similarity(probe.vec1, probe.vec2, probe.round))]
    /\ UNCHANGED << db, last, proc, conn, processing_status >>

NextCosine == CosineSimilarity

SpecCosine == InitCosine /\ [][NextCosine]_vars

\* SpecScripts: find_similar_script on its own, for a new text against a
\* question's one stored script.  ScriptLong says what ScriptA says with two
\* more words in the middle.
ScriptLong == Text(SubSeq(ScriptA.words, 1, 3) \o << "please", "restart" >>
                       \o SubSeq(ScriptA.words, 4, Len(ScriptA.words)), FALSE)

ProbeTexts ==
    { Text(t.words, caps) : t \in ScriptTexts \cup { ScriptLong }, caps \in BOOLEAN }

ScriptProbes == [script_text : ProbeTexts, existing : ProbeTexts, result : { None }]

\* A question with the one script text.
StoreWithScript(text) ==
    add_script(add_question(EmptyDb, ClusterIdOf("General Inquiry"), "reset password", None,
                            NullId),
               1, text, "instruction", FALSE, TRUE, NullId, 1)

InitScripts ==
    /\ db = EmptyDb
    /\ last = NoOp
    /\ proc = << >>
    /\ conn = << >>
    /\ probe \in ScriptProbes
    /\ processing_status = NotProcessing

FindSimilarScript ==
    /\ IsNone(probe.result)
    /\ probe' = [probe EXCEPT !.result =
                    Some(find_similar_script(StoreWithScript(probe.existing), 1,
                                             probe.script_text))]
    /\ UNCHANGED << db, last, proc, conn, processing_status >>

NextScripts == FindSimilarScript

SpecScripts == InitScripts /\ [][NextScripts]_vars

\* SpecRules: the decision of apply_filter_rules on its own, over small rule
\* tables and texts.
MaxRules == 2

\* A text of n words: first, then the word "x" again and again.
RECURSIVE Sentence(_, _)
Sentence(first, n) ==
    IF n <= 1 THEN first ELSE Sentence(first, n - 1) \o << " ", "x" >>

RuleTexts ==
    { << >>, Sentence(<< "s", "p", "a", "m" >>, 2), Sentence(<< "c", "a", "l", "l" >>, 3),
      Sentence(<< "S", "p", "a", "m" >>, 20), Sentence(<< "c", "a", "l", "l" >>, 20) }

RuleConditions ==
    { << "contains", << "s", "p", "a", "m" >> >>, << "not_contains", << "s", "p", "a", "m" >> >>,
      << "starts_with", << "S", "P", "A", "M" >> >>, << "word_count_lt", << "5" >> >>,
      << "word_count_gt", << " ", "1", "0" >> >>, << "word_count_lt", << "f", "i", "v", "e" >> >>,
      << "regex", << "x", " ", "x" >> >>, << "regex", << "(" >> >> }

RuleActions == { "auto_reject", "auto_approve", "mark_pending" }

\* Rule tables: rowids follow insertion, so created_at never decreases with
\* the rowid.
RuleTables ==
    { t \in UNION { [1..n -> [kind : RuleConditions, action : RuleActions,
                              is_active : BOOLEAN, created_at : 1..MaxRules]] :
                    n \in 0..MaxRules } :
        \A i \in DOMAIN t : \A j \in DOMAIN t : i <= j => t[i].created_at <= t[j].created_at }

RuleRows(t) ==
    [r \in DOMAIN t |->
        [rule_type |-> t[r].kind[1], condition_value |-> t[r].kind[2],
         action |-> t[r].action, is_active |-> t[r].is_active,
         created_at |-> t[r].created_at]]

RuleProbes ==
    { [filter_rules |-> RuleRows(t), text |-> text, pick |-> pick, result |-> None] :
        t \in RuleTables, text \in RuleTexts, pick \in 1..MaxRules }

InitRules ==
    /\ db = EmptyDb
    /\ last = NoOp
    /\ proc = << >>
    /\ conn = << >>
    /\ probe \in RuleProbes
    /\ processing_status = NotProcessing

ApplyFilterRules ==
    /\ IsNone(probe.result)
    /\ probe' = [probe EXCEPT !.result =
                    Some(apply_filter_rules(probe.filter_rules, probe.text, probe.pick))]
    /\ UNCHANGED << db, last, proc, conn, processing_status >>

NextRules == ApplyFilterRules

SpecRules == InitRules /\ [][NextRules]_vars

\* The candidate vector equals the stored vector of some row of the corpus.
HasStoredCopy == \E i \in 1..Len(probe.rows) : probe.rows[i].embedding = Some(probe.new_embedding)

\* C4: for any threshold T <= 1 and any corpus, resolving a text whose
\* embedding equals the stored embedding of an existing question returns a
\* question whose stored embedding has similarity 1.0 with the candidate, and
\* never "no match".
ExactMatchAlwaysResolves ==
    (/\ ~IsNone(probe.result)
     /\ probe.thresholdPct <= 100
     /\ HasStoredCopy)
    => /\ ~The(probe.result).none
       /\ The(probe.result).question_id # NullId
       /\ The(probe.result).similarity = Sim(1, 1, 0)
       /\ \E i \in 1..Len(probe.rows) :
              /\ probe.rows[i].id = The(probe.result).question_id
              /\ probe.rows[i].embedding = Some(probe.new_embedding)

\* ------------------------------------------------------------ the triggers
\* The threads of the application: the scheduler's job and the request
\* handlers of a threaded server.  Each runs one of run_background_processing,
\* api_process_all, api_reprocess or api_process_document, a statement, a
\* transaction or an external call per step; the batch triggers read and
\* write processing_status['is_processing'], the single-document trigger
\* does not.  run is where the thread stands in its handler, kind the handler,
\* queue the rows process_pending_documents has fetched and not yet tried.
RunIdle == ProcIdle @@ [run |-> "none", kind |-> "none", queue |-> << >>]

BatchKinds == { "scheduled", "process_all", "reprocess" }

InitRuns ==
    /\ db = EmptyDb
    /\ last = NoOp
    /\ proc = [w \in Workers |-> RunIdle]
    /\ conn = << >>
    /\ probe = << >>
    /\ processing_status = NotProcessing

get_documents_count(d, status) ==
    Cardinality({ doc_id \in DOMAIN d.documents : d.documents[doc_id].status = status })

\* The UPDATE of reprocess_all_documents: every transcription with a content
\* is pending again.
ResetToPending(d) ==
    [d EXCEPT !.documents = [doc_id \in DOMAIN @ |->
        IF @[doc_id].content # "" THEN [@[doc_id] EXCEPT !.status = "pending"]
        ELSE @[doc_id]]]

\* "if processing_status['is_processing']: return", the first statement of
\* the three batch triggers.  The scheduler runs one instance of its job at a
\* time (max_instances=1).
CheckProcessing(w) ==
    /\ proc[w].run = "none"
    /\ ~processing_status.is_processing
    /\ \E kind \in BatchKinds :
        /\ kind = "scheduled" => \A v \in Workers \ { w } : proc[v].kind # "scheduled"
        /\ proc' = [proc EXCEPT ![w] = [@ EXCEPT !.run = "checked", !.kind = kind]]
    /\ UNCHANGED << db, last, conn, probe, processing_status >>

\* The statements after the test.  run_background_processing and
\* api_reprocess set the flag at once; api_process_all scans the folder (no
\* new file here) and counts the pending documents first, returns when there
\* is none, and sets the flag only then.
SetProcessing(w) ==
    LET p == proc[w]
    IN /\ p.run = "checked"
       /\ IF p.kind = "process_all" /\ get_documents_count(db, "pending") = 0
          THEN /\ proc' = [proc EXCEPT ![w] = RunIdle]
               /\ UNCHANGED processing_status
          ELSE /\ processing_status' = [processing_status EXCEPT !.is_processing = TRUE]
               /\ proc' = [proc EXCEPT ![w] =
                     [p EXCEPT !.run = CASE p.kind = "scheduled" -> "count"
                                       [] p.kind = "reprocess" -> "reset"
                                       [] OTHER -> "fetch"]]
       /\ UNCHANGED << db, last, conn, probe >>

\* process_new_transcriptions: the scan, the count, and process_pending_documents
\* when a document is pending.
CountPending(w) ==
    /\ proc[w].run = "count"
    /\ proc' = [proc EXCEPT ![w] =
          [@ EXCEPT !.run = IF get_documents_count(db, "pending") > 0 THEN "fetch"
                            ELSE "finally"]]
    /\ UNCHANGED << db, last, conn, probe, processing_status >>

\* reprocess_all_documents: the UPDATE in a transaction of its own.
ResetDocuments(w) ==
    /\ proc[w].run = "reset"
    /\ LockFree
    /\ db' = ResetToPending(db)
    /\ last' = Did("reprocess_all_documents", NullId, NullId, NullId, TRUE, FALSE)
    /\ proc' = [proc EXCEPT ![w] = [@ EXCEPT !.run = "fetch"]]
    /\ UNCHANGED << conn, probe, processing_status >>

\* process_pending_documents: the SELECT of the pending rows.
FetchPending(w) ==
    /\ proc[w].run = "fetch"
    /\ proc' = [proc EXCEPT ![w] =
          [@ EXCEPT !.run = "loop", !.queue = get_pending_documents(db, BatchLimit)]]
    /\ UNCHANGED << db, last, conn, probe, processing_status >>

\* The loop of process_pending_documents: process_document on the next row,
\* the next row when it has returned, the end of the loop after the last.
LoopDocument(w, Cls) ==
    LET p == proc[w]
    IN /\ p.run = "loop"
       /\ IF p.queue = << >>
          THEN /\ p.pc = "idle"
               /\ proc' = [proc EXCEPT ![w] = [p EXCEPT !.run = "finally"]]
               /\ UNCHANGED << db, last, conn, probe, processing_status >>
          ELSE IF p.pc = "done"
          THEN /\ proc' = [proc EXCEPT ![w] =
                     [RunIdle EXCEPT !.run = "loop", !.kind = p.kind,
                                     !.queue = Tail(p.queue)]]
               /\ UNCHANGED << db, last, conn, probe, processing_status >>
          ELSE BeginOn(w, Head(p.queue), Cls)

\* The finally block of the batch triggers.
FinallyProcessing(w) ==
    /\ proc[w].run = "finally"
    /\ processing_status' = [processing_status EXCEPT !.is_processing = FALSE]
    /\ proc' = [proc EXCEPT ![w] = RunIdle]
    /\ UNCHANGED << db, last, conn, probe >>

\* api_process_document: process_document on the document of the request,
\* and the response when it has returned.
SingleDocument(w, Cls) ==
    LET p == proc[w]
    IN IF p.run = "none"
       THEN /\ \E doc_id \in DOMAIN db.documents, classification \in Cls :
                 proc' = [proc EXCEPT ![w] =
                     [Begun(p, doc_id, classification) EXCEPT !.run = "single",
                                                              !.kind = "single"]]
            /\ UNCHANGED << db, last, conn, probe, processing_status >>
       ELSE /\ p.run = "single"
            /\ p.pc = "done"
            /\ proc' = [proc EXCEPT ![w] = RunIdle]
            /\ UNCHANGED << db, last, conn, probe, processing_status >>

\* SpecRuns: two threads and two pending transcripts that ask the same
\* question, next to the embedding backfill; the script extraction fails.
RunClassifications == { Some(Asks("reset password")) }

NextRuns ==
    \/ \E w \in Workers :
        \/ CheckProcessing(w)
        \/ SetProcessing(w)
        \/ CountPending(w)
        \/ ResetDocuments(w)
        \/ FetchPending(w)
        \/ LoopDocument(w, RunClassifications)
        \/ FinallyProcessing(w)
        \/ SingleDocument(w, RunClassifications)
        \/ Subcategory(w)
        \/ ResolveQuestion(w, { TRUE })
        \/ StoreQuestionStep(w)
        \/ Asked(w)
        \/ Extract(w, { None })
        \/ WriteStatus(w)
        \/ WriteDaily(w)
    \/ BackfillQuestion

SpecRuns == InitRuns /\ [][NextRuns]_vars

\* -------------------------------------------------------------- properties
\* Two question texts the embedding model places within the configured
\* threshold of each other.
NearIdentical(t1, t2) ==
    SimLE(Threshold(SimilarityThresholdPct),
          cosine_similarity(EmbeddingOf(t1), EmbeddingOf(t2), 0))

\* Both runs have finished without error, with the embedding service
\* answering, on near-identical question texts.
BothFiled ==
    /\ \A w \in Workers : proc[w].pc = "done" /\ proc[w].ok /\ proc[w].up
    /\ NearIdentical(proc[1].c.question, proc[2].c.question)

\* C1: two process_document runs at the same time, on documents whose
\* question texts are near-identical, from a store without questions, never
\* end with two canonical questions: one is created and the other text is
\* attached to it as a variant.
ConcurrentRunsShareOneQuestion ==
    BothFiled =>
        /\ Cardinality(DOMAIN db.questions) = 1
        /\ Cardinality(DOMAIN db.question_variants) = 1
        /\ \A v \in DOMAIN db.question_variants :
               db.question_variants[v].question_id \in DOMAIN db.questions

\* C2: with documents processed one at a time and the embedding service
\* always answering, no two distinct canonical questions are within the
\* threshold of each other: two documents with the same question text give
\* one question with times_asked = 2 and one variant.
NoTwoQuestionsAlike ==
    \A q1 \in DOMAIN db.questions, q2 \in DOMAIN db.questions :
        q1 # q2 => ~NearIdentical(db.questions[q1].canonical_text,
                                  db.questions[q2].canonical_text)

\* C3: a question that process_document creates while the embedding call
\* succeeds, the store holding no vector at all included, is stored with the
\* computed vector: its embedding is not null.
CreatedWithEmbedding ==
    [][(/\ last'.op = "process_document"
        /\ last'.up
        /\ db'.seq.questions > db.seq.questions)
       => ~IsNone(db'.questions[db'.seq.questions].embedding)]_vars

\* The scripts of a question whose is_best column is set.
FlaggedScripts(d, question_id) == { s \in ScriptsOf(d, question_id) : d.scripts[s].is_best }

\* C5: in every reachable state a question with scripts has exactly one
\* script flagged is_best, a question without scripts has no best_script_id,
\* and a best_script_id names the flagged script, one of the question's own.
OneBestScriptPerQuestion ==
    \A q \in DOMAIN db.questions :
        /\ ScriptsOf(db, q) # {} => Cardinality(FlaggedScripts(db, q)) = 1
        /\ ScriptsOf(db, q) = {} => db.questions[q].best_script_id = NullId
        /\ db.questions[q].best_script_id # NullId
               => db.questions[q].best_script_id \in FlaggedScripts(db, q)

\* C8: every script's stored effectiveness is the formula applied to its
\* stored counters, from its creation by add_script on.
StoredEffectivenessIsFormula ==
    \A s \in DOMAIN db.scripts :
        db.scripts[s].effectiveness =
            Effectiveness(db.scripts[s].success_count, db.scripts[s].fail_count,
                          db.scripts[s].has_steps, db.scripts[s].script_type)

\* The script best_script_id names, when it names one, and its effectiveness.
BestEffectiveness(q) == db.scripts[db.questions[q].best_script_id].effectiveness

HasBest(q) == db.questions[q].best_script_id \in DOMAIN db.scripts

\* C10: in every reachable state a question is 'resolved' exactly when its
\* best script's effectiveness is at least 70, 'needs_work' exactly when it is
\* above 0 and below 70, and without an answer exactly when it has no best
\* script.
StatusAgreesWithBestScript ==
    \A q \in DOMAIN db.questions :
        /\ db.questions[q].status = "resolved"
               <=> (HasBest(q) /\ RatLE(Rat(70, 1), BestEffectiveness(q)))
        /\ db.questions[q].status = "needs_work"
               <=> (HasBest(q) /\ RatLT(Rat(0, 1), BestEffectiveness(q))
                               /\ RatLT(BestEffectiveness(q), Rat(70, 1)))
        /\ db.questions[q].status = "no_answer"
               <=> db.questions[q].best_script_id = NullId

\* (effectiveness, success_count) of a is lexicographically at least that of b.
LexAtLeast(a, b) ==
    \/ a.effectiveness.n * b.effectiveness.d > b.effectiveness.n * a.effectiveness.d
    \/ /\ a.effectiveness.n * b.effectiveness.d = b.effectiveness.n * a.effectiveness.d
       /\ a.success_count >= b.success_count

\* The flagged script of the question is a lexicographic maximum of its
\* scripts, no other script of it is flagged, and best_script_id names it.
BestIsMax(d, question_id) ==
    ScriptsOf(d, question_id) # {} =>
        /\ Cardinality(FlaggedScripts(d, question_id)) = 1
        /\ \A s \in FlaggedScripts(d, question_id) :
               /\ \A t \in ScriptsOf(d, question_id) : LexAtLeast(d.scripts[s], d.scripts[t])
               /\ question_id \in DOMAIN d.questions
                      => d.questions[question_id].best_script_id = s

\* The example of the tie-break: three scripts of question 1 with
\* effectiveness 40, 85, 85 and success counts 1, 3, 5.
ExampleScript(effectiveness, success_count) ==
    [question_id |-> 1, script_text |-> ScriptB, script_type |-> "explanation",
     has_steps |-> FALSE, success_count |-> success_count, fail_count |-> 0,
     effectiveness |-> Rat(effectiveness, 1), is_best |-> FALSE, source_document_id |-> 1]

ExampleDb ==
    [add_question(EmptyDb, 8, "reset password", None, 34) EXCEPT
        !.scripts = << ExampleScript(40, 1), ExampleScript(85, 3), ExampleScript(85, 5) >>,
        !.seq.scripts = 3]

ScoreUpdates == { "add_script", "update_script_count", "update_script_feedback",
                  "recalculate_best_script" }

\* C6: right after a score update for a question (add_script,
\* update_script_count, update_script_feedback, recalculate_best_script) the
\* script flagged is_best is a lexicographic maximum in (effectiveness,
\* success_count) among the question's scripts and no other script of the
\* question is flagged; of effectiveness 40, 85, 85 with success counts 3 and
\* 5 on the two 85s, the script with success count 5 is best.
BestScriptIsLexMax ==
    /\ (last.op \in ScoreUpdates /\ last.q # NullId) => BestIsMax(db, last.q)
    /\ \A pick \in 1..3 :
           FlaggedScripts(update_best_script(ExampleDb, 1, pick), 1) = { 3 }

\* A score update has just left a question with two scripts of equal
\* effectiveness and different success counts.
TieBrokenBySuccessCount ==
    /\ last.op \in ScoreUpdates
    /\ last.q # NullId
    /\ \E s \in ScriptsOf(db, last.q), t \in ScriptsOf(db, last.q) :
           /\ db.scripts[s].effectiveness = db.scripts[t].effectiveness
           /\ db.scripts[s].success_count > db.scripts[t].success_count
           /\ db.scripts[s].is_best

\* The scripts whose counters a step changes.
Recounted ==
    { s \in (DOMAIN db.scripts) \cap (DOMAIN db'.scripts) :
        \/ db'.scripts[s].success_count # db.scripts[s].success_count
        \/ db'.scripts[s].fail_count # db.scripts[s].fail_count }

\* C7: the counter increment, the effectiveness recompute and the best-script
\* reselection of one outcome recording are one step to every reader: whenever
\* the committed database shows a counter incremented, it shows the script's
\* effectiveness recomputed from the new counters and is_best /
\* best_script_id reselected over the question's scripts.
RecordingIsAtomic ==
    [][\A s \in Recounted :
          /\ db'.scripts[s].effectiveness =
                 Effectiveness(db'.scripts[s].success_count, db'.scripts[s].fail_count,
                               db'.scripts[s].has_steps, db'.scripts[s].script_type)
          /\ BestIsMax(db', db'.scripts[s].question_id)]_vars

\* An outcome recording is open on a question with two scripts: its counter
\* is incremented on the connection, not yet in the committed database.
RecordingInFlight ==
    /\ conn # << >>
    /\ conn[1].script_id \in DOMAIN db.scripts
    /\ conn[1].work.scripts[conn[1].script_id] # db.scripts[conn[1].script_id]
    /\ Cardinality(ScriptsOf(db, db.scripts[conn[1].script_id].question_id)) = 2

\* The reference formula, cross-multiplied: with t observations and bonus b,
\* the value is 100 when 100*success + b*t >= 100*t, else (100*success + b*t)/t;
\* the base is 50 when t = 0.
MatchesReference(row) ==
    LET t == row.success_count + row.fail_count
        b == (IF row.has_steps THEN 10 ELSE 0)
             + (IF row.script_type = "instruction" THEN 5 ELSE 0)
        e == row.effectiveness
    IN IF t = 0 THEN e.n = (50 + b) * e.d
       ELSE IF 100 * row.success_count + b * t >= 100 * t THEN e.n = 100 * e.d
       ELSE e.n * t = (100 * row.success_count + b * t) * e.d

Recomputes == { "update_script_count", "update_script_feedback" }

\* C9: the effectiveness a recompute stores is the reference formula's value
\* and never above 100: 7 successes, 3 fails, steps and type 'instruction'
\* give 85; 10 successes, no fail, steps and type 'instruction' give 100; and
\* every stored effectiveness lies in [0, 100].
EffectivenessMatchesAndIsCapped ==
    /\ \A s \in DOMAIN db.scripts :
           /\ RatLE(Rat(0, 1), db.scripts[s].effectiveness)
           /\ RatLE(db.scripts[s].effectiveness, Rat(100, 1))
    /\ (last.op \in Recomputes /\ last.s \in DOMAIN db.scripts)
           => MatchesReference(db.scripts[last.s])
    /\ Effectiveness(7, 3, TRUE, "instruction") = Rat(85, 1)
    /\ Effectiveness(10, 0, TRUE, "instruction") = Rat(100, 1)

\* A recompute has just capped a script with steps and no failure at 100.
RecomputeCapped ==
    /\ last.op \in Recomputes
    /\ last.s \in DOMAIN db.scripts
    /\ db.scripts[last.s].has_steps
    /\ db.scripts[last.s].fail_count = 0
    /\ db.scripts[last.s].success_count >= 2
    /\ db.scripts[last.s].effectiveness = Rat(100, 1)

\* The moderation log holds a manual best-script choice for the question.
Overridden(d, question_id) ==
    \E i \in 1..Len(d.moderation_log) :
        /\ d.moderation_log[i].action = "best_script_set"
        /\ d.moderation_log[i].question_id = question_id

\* The step records an outcome for a script of the question: the script is
\* new, or one of its counters changes.
Recorded(question_id) ==
    \E s \in ScriptsOf(db', question_id) :
        \/ s \notin DOMAIN db.scripts
        \/ db'.scripts[s].success_count # db.scripts[s].success_count
        \/ db'.scripts[s].fail_count # db.scripts[s].fail_count

\* C11: once set_best_script has been called for a question, any later
\* outcome recording on a script of the question (add_script,
\* update_script_count, update_script_feedback) leaves the script with the
\* maximal (effectiveness, success_count) flagged is_best, whatever script
\* the override named.
OverrideYieldsToEvidence ==
    [][\A q \in QuestionIds :
          (Overridden(db, q) /\ Recorded(q)) => BestIsMax(db', q)]_vars

\* A feedback has just taken the flag from the script an override gave it to.
OverrideOverturned ==
    /\ last.op = "update_script_feedback"
    /\ last.q # NullId
    /\ \E i \in 1..Len(db.moderation_log) :
           /\ db.moderation_log[i].action = "best_script_set"
           /\ db.moderation_log[i].question_id = last.q
           /\ db.moderation_log[i].script_id \in ScriptsOf(db, last.q)
           /\ ~db.scripts[db.moderation_log[i].script_id].is_best

UnrecordedOperations == { "process_document", "set_question_moderation_status",
                          "delete_script" }

\* C12: after set_best_script(Q, S) with S a script of Q, the next operation
\* that records no outcome for a script of Q (a document filed under Q whose
\* scripts are all too short, a moderation status change, the deletion of
\* another script of Q) leaves S the is_best script of Q.
OverrideSticksWithoutEvidence ==
    [][\A q \in QuestionIds, s \in ScriptIds :
          (/\ last.op = "set_best_script"
           /\ last.q = q
           /\ last.s = s
           /\ s \in FlaggedScripts(db, q)
           /\ last'.op \in UnrecordedOperations
           /\ ~Recorded(q)
           /\ s \in ScriptsOf(db', q))
          => s \in FlaggedScripts(db', q)]_vars

\* The variants of a question.
VariantsOf(d, question_id) ==
    { v \in DOMAIN d.question_variants : d.question_variants[v].question_id = question_id }

\* The step is merge_questions(source, target) returning success.
Merged(source, target) ==
    /\ last'.op = "merge_questions"
    /\ last'.ok
    /\ last'.s = source
    /\ last'.q = target

\* The merge scenario: question 1 asked 5 times with 2 variants and 1 script,
\* question 2 asked 3 times with no variant and 2 scripts.
ExampleMergeDb ==
    LET a == add_question(EmptyDb, 8, "reset password", None, 34)
        b == add_question(a, 8, "password reset", None, 34)
        v == add_question_variant(add_question_variant(b, 1, "billing", 1), 1, "billing", 2)
    IN [v EXCEPT
          !.questions[1].times_asked = 5,
          !.questions[2].times_asked = 3,
          !.scripts = << [ExampleScript(85, 1) EXCEPT !.question_id = 1],
                         [ExampleScript(40, 1) EXCEPT !.question_id = 2],
                         [ExampleScript(70, 2) EXCEPT !.question_id = 2] >>,
          !.seq.scripts = 3]

ExampleMerged(pick) == merge_questions(ExampleMergeDb, 1, 2, pick)

\* The scenario merged: question 2 alone, asked 8 times, with 3 variants and
\* 3 scripts, the best of them flagged, one merge record and one log entry.
ExampleMergeGivesEight ==
    \A pick \in 1..3 :
        /\ DOMAIN ExampleMerged(pick).questions = { 2 }
        /\ ExampleMerged(pick).questions[2].times_asked = 8
        /\ Cardinality(VariantsOf(ExampleMerged(pick), 2)) = 3
        /\ Cardinality(ScriptsOf(ExampleMerged(pick), 2)) = 3
        /\ FlaggedScripts(ExampleMerged(pick), 2) = { 1 }
        /\ Len(ExampleMerged(pick).merged_questions) = 1
        /\ Len(ExampleMerged(pick).moderation_log) = 1

\* C13: a successful merge_questions(source, target) with source # target
\* moves all variants and scripts of source to target, adds one variant of
\* target holding source's canonical text, adds source's times_asked to
\* target's, re-ranks target's scripts, deletes source and writes exactly one
\* merge record and one moderation log entry; the scenario (5 asks, 2
\* variants, 1 script into 3 asks, no variant, 2 scripts) gives 8 asks, 3
\* variants, 3 scripts.
MergeMovesEverything ==
    [][/\ \A source \in QuestionIds, target \in QuestionIds :
            (Merged(source, target) /\ source # target) =>
                /\ source \notin DOMAIN db'.questions
                /\ target \in DOMAIN db'.questions
                /\ DOMAIN db'.scripts = DOMAIN db.scripts
                /\ ScriptsOf(db', target) = ScriptsOf(db, source) \cup ScriptsOf(db, target)
                /\ ScriptsOf(db', source) = {}
                /\ db'.seq.question_variants = db.seq.question_variants + 1
                /\ VariantsOf(db', target) =
                       VariantsOf(db, source) \cup VariantsOf(db, target)
                           \cup { db'.seq.question_variants }
                /\ VariantsOf(db', source) = {}
                /\ db'.question_variants[db'.seq.question_variants].variant_text
                       = db.questions[source].canonical_text
                /\ db'.questions[target].times_asked
                       = db.questions[target].times_asked + db.questions[source].times_asked
                /\ BestIsMax(db', target)
                /\ Len(db'.merged_questions) = Len(db.merged_questions) + 1
                /\ db'.merged_questions[Len(db'.merged_questions)] =
                       [source_question_id |-> source, target_question_id |-> target,
                        source_canonical_text |-> db.questions[source].canonical_text]
                /\ Len(db'.moderation_log) = Len(db.moderation_log) + 1
                /\ db'.moderation_log[Len(db'.moderation_log)].action = "merged"
                /\ db'.moderation_log[Len(db'.moderation_log)].question_id = target
       /\ ExampleMergeGivesEight]_vars

\* A merge has just given its target a second script and the source's asks.
MergedWithScripts ==
    /\ last.op = "merge_questions"
    /\ last.ok
    /\ last.s # last.q
    /\ Cardinality(ScriptsOf(db, last.q)) = 2
    /\ db.questions[last.q].times_asked >= 2
    /\ VariantsOf(db, last.q) # {}

\* C14: merge_questions(source, target) with a source or a target that is
\* no existing question returns failure and leaves every table as it was.
FailedMergeChangesNothing ==
    [][\A source \in QuestionIds, target \in QuestionIds :
          (/\ last'.op = "merge_questions"
           /\ last'.s = source
           /\ last'.q = target
           /\ (source \notin DOMAIN db.questions \/ target \notin DOMAIN db.questions))
          => (~last'.ok /\ db' = db)]_vars

\* A merge has just failed for its target while its source exists with a script.
MergeRefused ==
    /\ last.op = "merge_questions"
    /\ ~last.ok
    /\ last.s \in DOMAIN db.questions
    /\ last.q \notin DOMAIN db.questions
    /\ ScriptsOf(db, last.s) # {}

\* The step shows a reader something only merge_questions writes: a variant
\* or a script with another owner, a merge record, a question gone, or a
\* 'merged' log entry.
MergeShows ==
    \/ \E v \in DOMAIN db.question_variants :
           db'.question_variants[v].question_id # db.question_variants[v].question_id
    \/ \E s \in DOMAIN db.scripts : db'.scripts[s].question_id # db.scripts[s].question_id
    \/ Len(db'.merged_questions) # Len(db.merged_questions)
    \/ DOMAIN db.questions # DOMAIN db.questions \cap DOMAIN db'.questions
    \/ /\ Len(db'.moderation_log) > Len(db.moderation_log)
       /\ db'.moderation_log[Len(db'.moderation_log)].action = "merged"

\* The step shows the whole merge of source into target.
MergeShowsAll(source, target) ==
    /\ source \in DOMAIN db.questions
    /\ source \notin DOMAIN db'.questions
    /\ target \in DOMAIN db'.questions
    /\ \A v \in VariantsOf(db, source) : db'.question_variants[v].question_id = target
    /\ \A s \in ScriptsOf(db, source) : db'.scripts[s].question_id = target
    /\ \E v \in VariantsOf(db', target) \ DOMAIN db.question_variants :
           db'.question_variants[v].variant_text = db.questions[source].canonical_text
    /\ db'.questions[target].times_asked > db.questions[target].times_asked
    /\ BestIsMax(db', target)
    /\ Len(db'.merged_questions) = Len(db.merged_questions) + 1
    /\ db'.merged_questions[Len(db'.merged_questions)].source_question_id = source
    /\ db'.merged_questions[Len(db'.merged_questions)].target_question_id = target
    /\ Len(db'.moderation_log) = Len(db.moderation_log) + 1
    /\ db'.moderation_log[Len(db'.moderation_log)].action = "merged"

\* C15: under every interleaving of merge_questions with document processing
\* and readers, a step of the committed database that shows any effect of a
\* merge shows all of it: source gone, its variants and scripts owned by
\* target, target's times_asked raised and its scripts re-ranked, the merge
\* record and the log entry.
MergeIsAtomicForReaders ==
    [][MergeShows =>
          \E source \in QuestionIds : \E target \in QuestionIds \ { source } :
              MergeShowsAll(source, target)]_vars

\* A merge is open with statements not yet committed while a worker that
\* resolved its document to the source or the target is about to write.
MergeInFlight ==
    /\ conn # << >>
    /\ conn[1].op = "merge_questions"
    /\ conn[1].work.scripts # db.scripts
    /\ \E w \in Workers :
           /\ proc[w].pc \in { "store", "asked" }
           /\ MatchedQuestion(proc[w].match_result)
           /\ proc[w].match_result.question_id \in { conn[1].source, conn[1].target }

\* C16: a question that process_document creates starts with the moderation
\* status that the active filter rules give its canonical text: rejected or
\* approved by the first rule that matches, pending when none does.
CreatedWithRuleStatus ==
    [][\A q \in DOMAIN db'.questions \ DOMAIN db.questions :
          \E pick \in DOMAIN default_filter_rules :
              db'.questions[q].moderation_status =
                  apply_filter_rules(default_filter_rules,
                                     Spelled(db'.questions[q].canonical_text), pick)]_vars

\* What a rule's action makes of the text it matches.
OutcomeOf(action) ==
    CASE action = "auto_reject" -> "rejected"
      [] action = "auto_approve" -> "approved"
      [] OTHER -> "pending"

\* C17: apply_filter_rules returns the outcome of the first active rule, in
\* the order get_filter_rules gives, that matches the text: rejected for
\* auto_reject, approved for auto_approve, pending for a rule that defers;
\* no later rule overrides it, and a text no rule matches is pending.  Stated
\* for the texts that are not empty.
FirstMatchingRuleWins ==
    (~IsNone(probe.result) /\ probe.text # << >>) =>
        LET rules == get_filter_rules(probe.filter_rules, TRUE, probe.pick)
            matching == { i \in DOMAIN rules : Matched(rules[i], probe.text) }
        IN probe.result[1] =
               IF matching = {} THEN "pending"
               ELSE OutcomeOf(rules[CHOOSE i \in matching : \A j \in matching : i <= j].action)

\* The step's new log entries.
NewLogEntries ==
    { db'.moderation_log[i] :
        i \in (Len(db.moderation_log) + 1)..Len(db'.moderation_log) }

\* C18: every step that changes a question's moderation_status appends a log
\* entry for that question with the old and the new status, whichever
\* operation makes the change.
StatusChangeIsLogged ==
    [][\A q \in DOMAIN db.questions \cap DOMAIN db'.questions :
          db'.questions[q].moderation_status # db.questions[q].moderation_status =>
              \E e \in NewLogEntries :
                  /\ e.question_id = q
                  /\ e.new_value = db'.questions[q].moderation_status]_vars

\* C19: bulk approve, reject and delete return the number of ids on which the
\* single-item operation succeeded, that is, of the ids that named a stored
\* question when their turn came.
BulkCountsSuccesses ==
    [][(last'.op = "api_admin_bulk_action" /\ last'.ok) =>
          last'.count =
              IF last'.action = "delete"
              THEN Cardinality({ q \in DOMAIN db.questions :
                                   \E i \in DOMAIN last'.question_ids :
                                       last'.question_ids[i] = q })
              ELSE Cardinality({ i \in DOMAIN last'.question_ids :
                                   last'.question_ids[i] \in DOMAIN db.questions })]_vars

\* C20: process_document on a document whose status is 'processed' returns
\* success and changes nothing in the database: no question, variant, script,
\* times_asked, daily counter or document field; so for every repeated call.
ProcessedDocumentIsSkipped ==
    [][(/\ last'.op = "process_document"
        /\ last'.doc \in DOMAIN db.documents
        /\ db.documents[last'.doc].status = "processed")
          => (db' = db /\ last'.ok)]_vars

\* process_document has been called again on a document already filed under
\* a question, and has returned success without resolving anything.
ProcessedAgain ==
    /\ last.op = "process_document"
    /\ last.ok
    /\ last.q = NullId
    /\ db.documents[last.doc].status = "processed"
    /\ db.documents[last.doc].analysis_result \in QuestionTexts
    /\ \E q \in DOMAIN db.questions : db.questions[q].times_asked = 1

\* C22: a failed classification call makes process_document return failure
\* and leave the document in status 'error' with a reason, creating no
\* question, variant or script; and every document in status 'error' carries
\* a non-empty error_message.
FailedClassificationIsRecorded ==
    /\ \A doc_id \in DOMAIN db.documents :
           db.documents[doc_id].status = "error" =>
               db.documents[doc_id].error_message \notin { "", "NULL" }
    /\ \A doc_id \in DOMAIN db.documents, up \in BOOLEAN :
           (~AlreadyProcessed(db, doc_id) /\ db.documents[doc_id].content # "") =>
               LET after == process_document(db, doc_id, None, up, None, 1)
               IN /\ ~process_documentOk(db, doc_id, None)
                  /\ after.documents[doc_id].status = "error"
                  /\ after.documents[doc_id].error_message \notin { "", "NULL" }
                  /\ after.questions = db.questions
                  /\ after.question_variants = db.question_variants
                  /\ after.scripts = db.scripts

\* process_document has just failed on a classification that failed, while
\* another document is filed under a question.
ClassificationFailed ==
    /\ last.op = "process_document"
    /\ ~last.ok
    /\ db.documents[last.doc].status = "error"
    /\ db.documents[last.doc].error_message = "Classification failed"
    /\ db.questions # << >>

\* Today's counters, zero when the day has no row yet.
TodayOf(d) ==
    IF "today" \in DOMAIN d.daily_summary THEN d.daily_summary["today"]
    ELSE [total_calls |-> 0, new_questions |-> 0, new_scripts |-> 0,
          resolved_count |-> 0, unresolved_count |-> 0]

\* C24: when the classification holds no question text, process_document
\* marks the document 'processed', returns success, adds one to the day's
\* calls and leaves questions, variants, scripts and the other daily
\* counters as they were.
NoQuestionCountsOneCall ==
    \A doc_id \in DOMAIN db.documents, up \in BOOLEAN :
        (~AlreadyProcessed(db, doc_id) /\ db.documents[doc_id].content # "") =>
            LET after == process_document(db, doc_id, Some(NoQuestion), up, None, 1)
            IN /\ process_documentOk(db, doc_id, Some(NoQuestion))
               /\ after.documents[doc_id].status = "processed"
               /\ after.questions = db.questions
               /\ after.question_variants = db.question_variants
               /\ after.scripts = db.scripts
               /\ TodayOf(after) =
                      [TodayOf(db) EXCEPT !.total_calls = @ + 1]

\* A document without a question has just been filed after one with a
\* question, so the day's counters were not all zero.
FiledWithoutQuestion ==
    /\ last.op = "process_document"
    /\ last.ok
    /\ last.q = NullId
    /\ db.documents[last.doc].status = "processed"
    /\ db.documents[last.doc].analysis_result = ""
    /\ TodayOf(db).total_calls = 2
    /\ TodayOf(db).new_questions = 1

\* C26: what find_similar_question returns when the embedding call fails
\* differs from what it returns when the embedding was computed and no stored
\* question cleared the threshold.
EmbeddingFailureIsTold ==
    (~IsNone(probe.result) /\ ~MatchedQuestion(The(probe.result))) =>
        The(probe.result) # ResolveRows(probe.rows, None, probe.thresholdPct, probe.round)

\* C27: when the classification holds a question text and the embedding
\* service fails, process_document still succeeds: the text is stored as a
\* new canonical question with no embedding, which update_all_embeddings
\* fills in later, and the document ends 'processed'.
EmbeddingFailureIsNotFatal ==
    \A doc_id \in DOMAIN db.documents, text \in QuestionTexts,
       extraction \in ExtractionsOf({ k \in ScriptKinds : k.text = ScriptShort },
                                    ScriptOutcomes) :
        (~AlreadyProcessed(db, doc_id) /\ db.documents[doc_id].content # "") =>
            LET after == process_document(db, doc_id, Some(Asks(text)), FALSE, extraction, 1)
                id == NextId(db, "questions")
            IN /\ process_documentOk(db, doc_id, Some(Asks(text)))
               /\ after.documents[doc_id].status = "processed"
               /\ DOMAIN after.questions = DOMAIN db.questions \cup { id }
               /\ after.questions[id].canonical_text = text
               /\ IsNone(after.questions[id].embedding)
               /\ ~IsNone(update_all_embeddings(after, { id }).questions[id].embedding)

\* A document has just been filed with the embedding service down, as a new
\* question without embedding, although a question with the same text and
\* a stored embedding exists.
FiledWithoutEmbedding ==
    /\ last.op = "process_document"
    /\ last.ok
    /\ ~last.up
    /\ last.q \in DOMAIN db.questions
    /\ IsNone(db.questions[last.q].embedding)
    /\ db.documents[last.doc].status = "processed"
    /\ \E q \in DOMAIN db.questions :
           /\ q # last.q
           /\ db.questions[q].canonical_text = db.questions[last.q].canonical_text
           /\ ~IsNone(db.questions[q].embedding)

\* C29: every script and every variant references a question that exists, and
\* a merge that succeeded leaves its target in place, for every pair of ids,
\* source = target included.
ReferencesResolve ==
    /\ \A s \in DOMAIN db.scripts : db.scripts[s].question_id \in DOMAIN db.questions
    /\ \A v \in DOMAIN db.question_variants :
           db.question_variants[v].question_id \in DOMAIN db.questions
    /\ (last.op = "merge_questions" /\ last.ok) => last.q \in DOMAIN db.questions

\* The stored embeddings of d's questions that e keeps as they are.
KeepsEmbeddings(d, e) ==
    \A q \in DOMAIN d.questions \cap DOMAIN e.questions :
        ~IsNone(d.questions[q].embedding) =>
            e.questions[q].embedding = d.questions[q].embedding

\* C30: when the resolver returns a match, process_document adds one variant
\* with the candidate text to the matched question and one to its
\* times_asked, and leaves its canonical_text and embedding and every other
\* question unchanged; and no operation, the backfill included, rewrites an
\* embedding that is stored.
MatchAddsOneVariant ==
    [][/\ (/\ last'.op = "process_document"
           /\ last'.q \in DOMAIN db.questions
           /\ ~AlreadyProcessed(db, last'.doc))
          => /\ \E v \in DOMAIN db'.question_variants \ DOMAIN db.question_variants :
                    /\ db'.question_variants =
                           Insert(db.question_variants, v,
                                  [question_id |-> last'.q,
                                   variant_text |-> db'.documents[last'.doc].analysis_result,
                                   source_document_id |-> last'.doc])
                    /\ db'.documents[last'.doc].analysis_result \in QuestionTexts
             /\ db'.questions =
                    [db.questions EXCEPT ![last'.q].times_asked = @ + 1]
       /\ KeepsEmbeddings(db, db')
       /\ \A q \in QuestionIds :
              /\ KeepsEmbeddings(db, update_question_text(db, q, "billing"))
              /\ KeepsEmbeddings(db, set_question_moderation_status(db, q, "approved", ""))
              /\ \A o \in QuestionIds : KeepsEmbeddings(db, merge_questions(db, q, o, 1))]_vars

\* A document asking in other words has just been filed under a question
\* whose embedding is stored.
FiledUnderMatch ==
    /\ last.op = "process_document"
    /\ last.q \in DOMAIN db.questions
    /\ ~IsNone(db.questions[last.q].embedding)
    /\ db.questions[last.q].times_asked = 2
    /\ \E v \in DOMAIN db.question_variants :
           /\ db.question_variants[v].question_id = last.q
           /\ db.question_variants[v].source_document_id = last.doc
           /\ db.question_variants[v].variant_text # db.questions[last.q].canonical_text

\* C23: a document whose processing failed is kept for retry: a later batch
\* run attempts it again.
FailedDocumentIsRetried ==
    [][last'.op = "process_pending_documents" =>
          \A doc_id \in DOMAIN db.documents :
              db.documents[doc_id].status = "error" =>
                  \E i \in DOMAIN last'.pending : last'.pending[i] = doc_id]_vars

\* C25: a document that fails or raises never ends the batch: every pending
\* document fetched is attempted, and the triple returned satisfies
\* processed + errors = total, the number of pending documents fetched, at
\* most the batch limit.
BatchCountsEveryDocument ==
    [][last'.op = "process_pending_documents" =>
          /\ last'.processed + last'.errors = last'.total
          /\ last'.total <= BatchLimit
          /\ last'.total = Cardinality({ doc_id \in DOMAIN db.documents :
                                           db.documents[doc_id].status = "pending" })
          /\ \A doc_id \in DOMAIN db.documents :
                 db.documents[doc_id].status = "pending" =>
                     db'.documents[doc_id].status \in { "processed", "error" }]_vars

\* A batch has just counted one error for a first document that raised and
\* one document processed after it.
BatchWentOnAfterException ==
    /\ last.op = "process_pending_documents"
    /\ last.total = 2
    /\ last.processed = 1
    /\ last.errors = 1
    /\ db.documents[last.pending[1]].status = "error"
    /\ db.documents[last.pending[1]].error_message = ExceptionText
    /\ db.documents[last.pending[2]].status = "processed"

\* C28: processing a document is all-or-nothing: when process_document raises
\* after the dedup step, or ends with the document in status 'error', none of
\* its effects on questions, variants, scripts or daily counters persist.
FailedDocumentLeavesNothing ==
    [][(\/ last'.op = "process_document" /\ (last'.raised \/ ~last'.ok)
        \/ /\ last'.op = "process_pending_documents"
           /\ last'.processed = 0)
          => /\ db'.questions = db.questions
             /\ db'.question_variants = db.question_variants
             /\ db'.scripts = db.scripts
             /\ db'.daily_summary = db.daily_summary]_vars

\* Thread w has passed the status test of process_document and has not yet
\* written the document's new status.
InPipeline(w) == proc[w].pc \notin { "idle", "done", "daily" }

\* C21: While a batch run (the scheduled job, /api/process-all or
\* /api/reprocess) has a document in the pipeline, no other thread, batch
\* run or single-document request, has the same document in the pipeline.
NoDocumentInTwoRuns ==
    \A v \in Workers : \A w \in Workers \ { v } :
        (proc[v].kind \in BatchKinds /\ InPipeline(v) /\ InPipeline(w)) =>
            proc[v].doc_id # proc[w].doc_id

\* The two counters of a script row.
Counters(row) == << row.success_count, row.fail_count >>

\* One observation with the given outcome, counted on the counters c.
Observed(c, resolved) == IF resolved THEN << c[1] + 1, c[2] >> ELSE << c[1], c[2] + 1 >>

\* The outcome the script loop of thread w has read for the script at hand.
ResolvedAt(w) == ResolvedOf(Head(proc[w].todo), The(proc[w].extraction).customer_satisfied)

\* C31: A script is created with one observation counted, on success_count
\* when the outcome is resolved and on fail_count otherwise; a later
\* observation (update_script_count from a transcript, update_script_feedback)
\* adds one to exactly one counter, the one its outcome names; no other step
\* changes a counter, so neither counter ever decreases.
ObservationCountsOnce ==
    [][/\ \A w \in Workers :
            (proc[w].pc = "add_script" /\ proc'[w].pc # "add_script") =>
                \E s \in DOMAIN db'.scripts \ DOMAIN db.scripts :
                    Counters(db'.scripts[s]) = Observed(<< 0, 0 >>, ResolvedAt(w))
       /\ \A s \in DOMAIN db'.scripts \ DOMAIN db.scripts :
            db'.scripts[s].success_count + db'.scripts[s].fail_count = 1
       /\ (conn = << >> /\ conn' # << >> /\ conn'[1].stage = "effectiveness") =>
            LET t == conn'[1]
            IN \A s \in DOMAIN db.scripts :
                 Counters(t.work.scripts[s]) =
                     IF s # t.script_id THEN Counters(db.scripts[s])
                     ELSE IF t.owner \in Workers
                          THEN Observed(Counters(db.scripts[s]), ResolvedAt(t.owner))
                          ELSE IF t.work.scripts[s].success_count = db.scripts[s].success_count
                               THEN Observed(Counters(db.scripts[s]), FALSE)
                               ELSE Observed(Counters(db.scripts[s]), TRUE)
       /\ (conn # << >> /\ conn' # << >>) =>
            \A s \in DOMAIN conn[1].work.scripts :
                Counters(conn'[1].work.scripts[s]) = Counters(conn[1].work.scripts[s])
       /\ \A s \in DOMAIN db.scripts \cap DOMAIN db'.scripts :
            IF conn # << >> /\ conn' = << >>
            THEN Counters(db'.scripts[s]) = Counters(conn[1].work.scripts[s])
            ELSE Counters(db'.scripts[s]) = Counters(db.scripts[s])
      ]_vars

\* A transcript has repeated a stored script on a call that was not resolved.
ObservedUnresolvedAgain ==
    /\ last.op = "update_script_count"
    /\ \E s \in DOMAIN db.scripts :
         /\ db.scripts[s].fail_count >= 1
         /\ db.scripts[s].success_count + db.scripts[s].fail_count >= 2

\* C32: After any sequence of process_document runs and merges of two
\* different questions, every question has been asked once more than it has
\* variants: times_asked = 1 + the number of its variants.
TimesAskedCountsVariants ==
    \A q \in DOMAIN db.questions :
        db.questions[q].times_asked = 1 + Cardinality(VariantsOf(db, q))

\* A merge has folded one question into another: the target counts the
\* source's call and holds the source's text as a variant.
MergedAndCounted ==
    /\ last.op = "merge_questions"
    /\ last.ok
    /\ last.q \in DOMAIN db.questions
    /\ db.questions[last.q].times_asked = 2
    /\ Cardinality(VariantsOf(db, last.q)) = 1

\* The questions stored with a vector, and the similarity of one of them to
\* the vector of a text.
WithVector(d) == { q \in DOMAIN d.questions : ~IsNone(d.questions[q].embedding) }
SimilarityTo(d, q, text) ==
    cosine_similarity(EmbeddingOf(text),
                      The(deserialize_embedding(d.questions[q].embedding)), 0)

\* The questions with the highest similarity to text, if it reaches the
\* configured threshold.
TopMatches(d, text) ==
    { q \in WithVector(d) :
        /\ SimLE(Threshold(SimilarityThresholdPct), SimilarityTo(d, q, text))
        /\ \A o \in WithVector(d) : SimLE(SimilarityTo(d, o, text), SimilarityTo(d, q, text)) }

\* C33: With the embedding computed, find_similar_question returns the stored
\* question of the highest similarity when that similarity reaches the
\* configured threshold, the first of the scan among equally similar ones, and
\* no question otherwise; a question stored without a vector is never
\* returned; the call writes nothing to the database.
ResolverReturnsFirstBest ==
    [][/\ \A text \in QuestionTexts :
            LET r == find_similar_question(db, text, TRUE, SimilarityThresholdPct)
                rows == get_all_questions_with_embeddings(db)
                top == TopMatches(db, text)
            IN /\ ~r.none => (r.question_id # NullId <=> top # {})
               /\ r.none => WithVector(db) = {}
               /\ r.question_id # NullId =>
                    /\ r.question_id \in top
                    /\ r.similarity = SimilarityTo(db, r.question_id, text)
                    /\ \E i \in 1..Len(rows) :
                         /\ rows[i].id = r.question_id
                         /\ \A j \in 1..(i - 1) : rows[j].id \notin top
       /\ \A w \in Workers :
            (proc[w].pc = "resolve" /\ proc'[w].pc = "store") =>
                /\ db' = db
                /\ proc'[w].match_result =
                       find_similar_question(db, proc[w].c.question, proc'[w].up,
                                             SimilarityThresholdPct)
      ]_vars

\* Two stored questions are equally similar to a text, above the threshold,
\* in a state a run has reached past its call of the resolver.
TiedMatches ==
    /\ \E text \in QuestionTexts : Cardinality(TopMatches(db, text)) >= 2
    /\ \E w \in Workers : proc[w].pc \in { "store", "asked", "extract", "status", "daily", "done" }

\* Sequence b goes on from sequence a.
Extends(b, a) == Len(a) <= Len(b) /\ SubSeq(b, 1, Len(a)) = a

\* The moderation log and the merge records of e go on from those of d.
KeepsRecords(e, d) ==
    /\ Extends(e.moderation_log, d.moderation_log)
    /\ Extends(e.merged_questions, d.merged_questions)

\* C34: The moderation log and the merge records only grow: every step,
\* delete_question and merge_questions among them, leaves the entries written
\* before in place and unchanged, and so does a bulk delete applied in any
\* reachable state.
RecordsAreAppendOnly ==
    [][/\ KeepsRecords(db', db)
       /\ \A question_ids \in { << 1 >>, << 2, 1 >> } :
            KeepsRecords(bulk_delete_questions(db, question_ids, ""), db)
      ]_vars

\* A question that the log has an entry about has been deleted, and the entry
\* is still there.
DeletedWithHistory ==
    /\ last.op = "delete_question"
    /\ last.ok
    /\ Len(db.moderation_log) >= 2
    /\ db.moderation_log[1].question_id = last.q
    /\ db.moderation_log[1].action # "deleted"

\* C35: Every question's moderation_status is pending, approved or rejected,
\* whatever status a request supplies.
StatusIsOneOfThree ==
    \A q \in DOMAIN db.questions : db.questions[q].moderation_status \in ModerationStatuses

\* The step is a moderation call whose ids do not resolve: the question is not
\* stored, or the script of set_best_script is not one of the question's.
UnresolvedModeration ==
    \/ /\ last'.op \in { "delete_question", "set_question_moderation_status" }
       /\ last'.q \notin DOMAIN db.questions
    \/ /\ last'.op = "set_best_script"
       /\ \/ last'.q \notin DOMAIN db.questions
          \/ last'.s \notin ScriptsOf(db, last'.q)

\* C36: A moderation call whose ids do not resolve reports failure and
\* changes nothing: not the moderation log, not a question's best_script_id.
UnresolvedModerationChangesNothing ==
    [][UnresolvedModeration => (~last'.ok /\ db' = db)]_vars

\* C37: When a batch run returns, no document it fetched is still pending;
\* and with batch runs started again and again, every pending document
\* eventually leaves 'pending' for 'processed' or 'error', also when the
\* batch limit is below the number of pending documents.
PendingIsEventuallyTried ==
    /\ [][last'.op = "process_pending_documents" =>
            \A i \in 1..Len(last'.pending) :
                db'.documents[last'.pending[i]].status \in { "processed", "error" }]_vars
    /\ \A doc_id \in 1..NumDocs :
         (db.documents[doc_id].status = "pending")
             ~> (db.documents[doc_id].status \in { "processed", "error" })

\* A batch has fetched the second document alone, after an earlier batch
\* had left it pending behind the first, and no document is pending.
SecondBatchTookTheRest ==
    /\ last.op = "process_pending_documents"
    /\ last.pending = << 2 >>
    /\ \A doc_id \in 1..NumDocs : db.documents[doc_id].status \in { "processed", "error" }

\* The documents the step has taken to 'processed'.
TurnedProcessed ==
    { doc_id \in DOMAIN db.documents :
        /\ db.documents[doc_id].status # "processed"
        /\ db'.documents[doc_id].status = "processed" }

\* C38: Every document that process_document takes to 'processed' adds one
\* to the day's total_calls; a run that ends in 'error' or skips its document
\* changes no counter of the day; after every run resolved_count +
\* unresolved_count and new_questions are at most total_calls.
DailySummaryCountsProcessed ==
    [][/\ TodayOf(db').total_calls = TodayOf(db).total_calls + Cardinality(TurnedProcessed)
       /\ TurnedProcessed = {} => TodayOf(db') = TodayOf(db)
       /\ TodayOf(db').resolved_count + TodayOf(db').unresolved_count
              <= TodayOf(db').total_calls
       /\ TodayOf(db').new_questions <= TodayOf(db').total_calls
      ]_vars

\* A run has just ended in 'error' on a day that counts one call, of a
\* transcript filed as a new question.
FailedAfterCounted ==
    /\ last.op = "process_document"
    /\ ~last.ok
    /\ db.documents[last.doc].status = "error"
    /\ TodayOf(db).total_calls = 1
    /\ TodayOf(db).new_questions = 1
    /\ TodayOf(db).resolved_count + TodayOf(db).unresolved_count = 1

\* The share of the shorter text's words that the other text has too is above
\* the configured fraction.
OverlapsShorter(a, b) ==
    LET shorter == IF TextLen(a) <= TextLen(b) THEN a ELSE b
    IN /\ WordSet(shorter) # {}
       /\ Cardinality(WordSet(a) \cap WordSet(b)) * 10
              > OverlapTenths * Cardinality(WordSet(shorter))

\* The rule for two normalized texts: identical, or one inside the other
\* with both above the minimum length, or overlapping by the shorter's words.
SameScript(a, b) ==
    \/ a = b
    \/ /\ TextLen(a) > MinSimilarLen
       /\ TextLen(b) > MinSimilarLen
       /\ IsSubstring(a, b) \/ IsSubstring(b, a)
    \/ OverlapsShorter(a, b)

\* C39: find_similar_script reports the stored script as the same as the new
\* text exactly when the rule says so of their normalized texts, whichever of
\* the two is the stored one.
DuplicateVerdictFollowsRule ==
    ~IsNone(probe.result) =>
        ((The(probe.result) # NullId)
            <=> SameScript(Normalize(probe.script_text), Normalize(probe.existing)))

AllZero(v) == \A i \in 1..Len(v) : v[i] = 0

\* One of the two vectors is empty or all zero, or their lengths differ.
Degenerate(vec1, vec2) ==
    \/ vec1 = << >>
    \/ vec2 = << >>
    \/ Len(vec1) # Len(vec2)
    \/ AllZero(vec1)
    \/ AllZero(vec2)

\* C40: cosine_similarity returns exactly 0.0 when either vector is empty or
\* all zero or the lengths differ, and for two non-zero vectors of one length
\* it returns the same value with the arguments exchanged.
CosineIsZeroOrSymmetric ==
    ~IsNone(probe.result) =>
        IF Degenerate(probe.vec1, probe.vec2)
        THEN The(probe.result) = SimZero
        ELSE The(probe.result) = cosine_similarity(probe.vec2, probe.vec1, probe.round)

\* Two vectors of different lengths, neither empty nor zero, were compared.
MismatchedGaveZero ==
    /\ ~IsNone(probe.result)
    /\ ~AllZero(probe.vec1)
    /\ ~AllZero(probe.vec2)
    /\ Len(probe.vec1) # Len(probe.vec2)
    /\ The(probe.result) = SimZero

=============================================================================
